---- MODULE Spec2Model ----
(***************************************************************************)
(* Wordfall: a 6x6 word-matching puzzle (React component App and its       *)
(* helpers).  The model follows src/types.ts and src/constants.ts: the     *)
(* component's state hooks are the variables, every event handler, effect  *)
(* and scheduled callback is one action, and the pure helpers (Trie,       *)
(* generateTile, isAdjacent, findFirstWord) are operators.                 *)
(*                                                                         *)
(* Conventions                                                             *)
(*  - coordinates are 0-based <<r, c>> pairs, as in the source;            *)
(*  - a string (word) is a sequence of one-character strings; the empty    *)
(*    letter of a blocked tile is "" and contributes nothing to a word;    *)
(*  - Math.random() is an input: every generated tile consumes one record  *)
(*    of draws [roll, letter, wild, color], roll and wild in percent;      *)
(*  - JavaScript null is a record with a flag (NullTrie, NoResult), since  *)
(*    values of one variable must be comparable;                           *)
(*  - a pending setTimeout callback is an element of timers (or the record *)
(*    casualTimer for the effect that clears its own timeout) holding the  *)
(*    values its closure captured; it fires at any later step;             *)
(*  - the one-second countdown of the TIMED mode ticks in SpecTimed only;  *)
(*    the properties checked under Spec do not depend on timeLeft.         *)
(***************************************************************************)
EXTENDS Integers, Sequences, FiniteSets, TLC

\* ------------------------------------------------------------------------
\* constants.ts
\* ------------------------------------------------------------------------
GRID_SIZE == 6
MIN_WORD_LENGTH == 3
MAX_WORD_LENGTH == 10

TILE_COLORS == <<"PINK", "BLUE", "TEAL", "PURPLE", "INDIGO">>
WILD_COLOR == "GOLD"

SCORES == [len \in 3..10 |->
             CASE len = 3 -> 10
               [] len = 4 -> 20
               [] len = 5 -> 40
               [] len = 6 -> 80
               [] len = 7 -> 150
               [] len = 8 -> 300
               [] len = 9 -> 500
               [] len = 10 -> 1000]

\* ------------------------------------------------------------------------
\* bounds of the model
\* ------------------------------------------------------------------------
\* accepted words per session (guard of the release handler)
MaxWords == 2
\* distinct words inserted into one trie in the trie specification
MaxInserts == 3
\* games started (guard of startGame)
MaxGames == 2
\* values of the clock read by endGame
MaxDate == 1
\* entries saved for the timed mode in the leaderboard specification
MaxTimedEntries == 2
\* seconds before the end of the countdown in which the player of the
\* countdown specification touches the grid
PlaySeconds == 2

\* ------------------------------------------------------------------------
\* small helpers
\* ------------------------------------------------------------------------
Rows == 0..(GRID_SIZE - 1)
Cols == 0..(GRID_SIZE - 1)
Coords == Rows \X Cols

Abs(n) == IF n < 0 THEN -n ELSE n
Min(a, b) == IF a < b THEN a ELSE b
Max(a, b) == IF a > b THEN a ELSE b

Range(s) == {s[i] : i \in DOMAIN s}

\* ------------------------------------------------------------------------
\* Trie
\* ------------------------------------------------------------------------
NewTrieNode == [children |-> <<>>, isEndOfWord |-> FALSE]

NewTrie == [isNull |-> FALSE, root |-> NewTrieNode]
NullTrie == [isNull |-> TRUE, root |-> NewTrieNode]

RECURSIVE TrieInsertFrom(_, _, _)
\* the loop of insert from character i on, returning the updated subtree
TrieInsertFrom(node, word, i) ==
  IF i > Len(word)
  THEN [node EXCEPT !.isEndOfWord = TRUE]
  ELSE LET char == word[i]
           child == IF char \in DOMAIN node.children
                    THEN node.children[char]
                    ELSE NewTrieNode
       IN [node EXCEPT !.children =
             [x \in (DOMAIN node.children) \cup {char} |->
                IF x = char THEN TrieInsertFrom(child, word, i + 1)
                ELSE node.children[x]]]

TrieInsert(t, word) == [t EXCEPT !.root = TrieInsertFrom(t.root, word, 1)]

RECURSIVE TrieSearchFromMissingEnd(_, _, _)
\* search that forgets to look at isEndOfWord
TrieSearchFromMissingEnd(node, word, i) ==
  IF i > Len(word)
  THEN 2
  ELSE IF word[i] \notin DOMAIN node.children
       THEN 0
       ELSE TrieSearchFromMissingEnd(node.children[word[i]], word, i + 1)

RECURSIVE TrieSearchFrom(_, _, _)
\* the loop of search from character i on: 0 no match, 1 prefix, 2 word
TrieSearchFrom(node, word, i) ==
  IF i > Len(word)
  THEN IF node.isEndOfWord THEN 2 ELSE 1
  ELSE IF word[i] \notin DOMAIN node.children
       THEN 0
       ELSE TrieSearchFrom(node.children[word[i]], word, i + 1)

TrieSearch(t, word) == TrieSearchFrom(t.root, word, 1)

\* ------------------------------------------------------------------------
\* dictionary loader (the body of loadDictionary up to the state updates)
\* ------------------------------------------------------------------------
\* String.toUpperCase on one character of the model's alphabet
ToUpperChar(ch) ==
  CASE ch = "a" -> "A"
    [] ch = "c" -> "C"
    [] ch = "e" -> "E"
    [] ch = "s" -> "S"
    [] ch = "t" -> "T"
    [] OTHER -> ch

ToUpperCase(w) == [i \in DOMAIN w |-> ToUpperChar(w[i])]

\* lines -> upper-cased words of length MIN_WORD_LENGTH..MAX_WORD_LENGTH
LoadedWords(lines) ==
  LET upper == [i \in DOMAIN lines |-> ToUpperCase(lines[i])]
      Keep(w) == Len(w) >= MIN_WORD_LENGTH /\ Len(w) <= MAX_WORD_LENGTH
  IN SelectSeq(upper, Keep)

\* a set that leaves out the words of MIN_WORD_LENGTH letters
DictSetOfLong(words) == {w \in Range(words) : Len(w) > MIN_WORD_LENGTH}

\* new Set(words)
DictSetOf(words) == Range(words)

RECURSIVE TrieInsertAll(_, _, _)
\* words.forEach(w => newTrie.insert(w)), from index i on
TrieInsertAll(t, words, i) ==
  IF i > Len(words) THEN t
  ELSE TrieInsertAll(TrieInsert(t, words[i]), words, i + 1)

TrieOf(words) == TrieInsertAll(NewTrie, words, 1)

\* ------------------------------------------------------------------------
\* tiles
\* ------------------------------------------------------------------------
\* blockedChance of generateTile, in percent
BlockedChance(level, mode) ==
  IF mode = "TIMED"
  THEN Min(25, level * 3)
  ELSE Min(20, 4 + level)

BlockedTile(id, isNew) ==
  [id |-> id, letter |-> "", status |-> "IDLE", color |-> "GRAY",
   isNew |-> isNew, isBlocked |-> TRUE, isBomb |-> FALSE]

\* a bomb tile that is flagged blocked as well
BombTileBlocked(id, isNew, letter) ==
  [id |-> id, letter |-> letter, status |-> "IDLE", color |-> "RAINBOW",
   isNew |-> isNew, isBlocked |-> TRUE, isBomb |-> TRUE]

BombTile(id, isNew, letter) ==
  [id |-> id, letter |-> letter, status |-> "IDLE", color |-> "RAINBOW",
   isNew |-> isNew, isBlocked |-> FALSE, isBomb |-> TRUE]

\* generateTile; forcedType is "BLOCKED", "BOMB" or "none" (undefined);
\* rnd holds the draws of Math.random: roll and wild in percent, the
\* letter drawn from LETTER_POOL and the index drawn into TILE_COLORS;
\* id stands for generateId() (the React key is not modelled)
generateTile(level, mode, isNew, forcedType, rnd, id) ==
  IF forcedType = "BLOCKED" THEN BlockedTile(id, isNew)
  ELSE IF forcedType = "BOMB" THEN BombTile(id, isNew, rnd.letter)
  ELSE IF rnd.roll < BlockedChance(level, mode) THEN BlockedTile(id, isNew)
  ELSE IF rnd.roll < BlockedChance(level, mode) + 8
       THEN BombTile(id, isNew, rnd.letter)
  ELSE [id |-> id, letter |-> rnd.letter, status |-> "IDLE",
        color |-> IF rnd.wild < 8 THEN WILD_COLOR ELSE TILE_COLORS[rnd.color],
        isNew |-> isNew, isBlocked |-> FALSE, isBomb |-> FALSE]

\* createInitialGrid whose tiles are generated as new tiles
createInitialGridNew(level, mode, draws) ==
  [r \in Rows |-> [c \in Cols |->
     generateTile(1, mode, TRUE, "none",
                  draws[r * GRID_SIZE + c + 1], r * GRID_SIZE + c + 1)]]

\* createInitialGrid: draws is the row-major sequence of the 36 draws
createInitialGrid(level, mode, draws) ==
  [r \in Rows |-> [c \in Cols |->
     generateTile(1, mode, FALSE, "none",
                  draws[r * GRID_SIZE + c + 1], r * GRID_SIZE + c + 1)]]

\* isAdjacent that accepts a step of two columns
isAdjacentWide(c1, c2) ==
  LET dr == Abs(c1[1] - c2[1])
      dc == Abs(c1[2] - c2[2])
  IN dr <= 1 /\ dc <= 2 /\ ~(dr = 0 /\ dc = 0)

isAdjacent(c1, c2) ==
  LET dr == Abs(c1[1] - c2[1])
      dc == Abs(c1[2] - c2[2])
  IN dr <= 1 /\ dc <= 1 /\ ~(dr = 0 /\ dc = 0)

\* the literal neighbour list of findFirstWord and of the bomb resolution
Neighbors(r, c) ==
  << <<r - 1, c - 1>>, <<r - 1, c>>, <<r - 1, c + 1>>,
     <<r, c - 1>>,                   <<r, c + 1>>,
     <<r + 1, c - 1>>, <<r + 1, c>>, <<r + 1, c + 1>> >>

\* a string of one letter ('' + letter)
LetterStr(letter) == IF letter = "" THEN <<>> ELSE <<letter>>

RECURSIVE JoinLetters(_, _, _)
\* coords.map(s => grid[s.r][s.c].letter).join(''), from index i on
JoinLetters(g, coords, i) ==
  IF i > Len(coords) THEN <<>>
  ELSE LetterStr(g[coords[i][1]][coords[i][2]].letter)
         \o JoinLetters(g, coords, i + 1)

WordOf(g, coords) == JoinLetters(g, coords, 1)

\* ------------------------------------------------------------------------
\* findFirstWord
\* ------------------------------------------------------------------------
NoResult == [found |-> FALSE, path |-> <<>>]
Found(path) == [found |-> TRUE, path |-> path]

\* the depth cap of search
SEARCH_DEPTH_CAP == 8

RECURSIVE search(_, _, _, _, _, _)
RECURSIVE searchNeighbors(_, _, _, _, _, _, _)
RECURSIVE searchNoCap(_, _, _, _, _, _)
RECURSIVE searchCapSeven(_, _, _, _, _, _)

\* search whose depth cap is MAX_WORD_LENGTH instead of 8
searchNoCap(g, t, r, c, path, currentStr) ==
  IF g[r][c].isBlocked THEN NoResult
  ELSE LET str == currentStr \o LetterStr(g[r][c].letter)
           lookup == TrieSearch(t, str)
       IN IF lookup = 0 THEN NoResult
          ELSE IF lookup = 2 /\ Len(str) >= MIN_WORD_LENGTH
               THEN Found(Append(path, <<r, c>>))
          ELSE IF Len(str) >= MAX_WORD_LENGTH THEN NoResult
          ELSE searchNeighbors(g, t, r, c, path, str, 1)

\* search whose depth cap is one letter too low
searchCapSeven(g, t, r, c, path, currentStr) ==
  IF g[r][c].isBlocked THEN NoResult
  ELSE LET str == currentStr \o LetterStr(g[r][c].letter)
           lookup == TrieSearch(t, str)
       IN IF lookup = 0 THEN NoResult
          ELSE IF lookup = 2 /\ Len(str) >= MIN_WORD_LENGTH
               THEN Found(Append(path, <<r, c>>))
          ELSE IF Len(str) >= SEARCH_DEPTH_CAP - 1 THEN NoResult
          ELSE searchNeighbors(g, t, r, c, path, str, 1)

\* the inner function search of findFirstWord
search(g, t, r, c, path, currentStr) ==
  IF g[r][c].isBlocked THEN NoResult
  ELSE LET str == currentStr \o LetterStr(g[r][c].letter)
           lookup == TrieSearch(t, str)
       IN IF lookup = 0 THEN NoResult
          ELSE IF lookup = 2 /\ Len(str) >= MIN_WORD_LENGTH
               THEN Found(Append(path, <<r, c>>))
          ELSE IF Len(str) >= SEARCH_DEPTH_CAP THEN NoResult
          ELSE searchNeighbors(g, t, r, c, path, str, 1)

\* the loop over the neighbours of (r, c) in search, from neighbour k on
searchNeighbors(g, t, r, c, path, str, k) ==
  IF k > 8 THEN NoResult
  ELSE LET n == Neighbors(r, c)[k]
       IN IF /\ n[1] >= 0 /\ n[1] < GRID_SIZE /\ n[2] >= 0 /\ n[2] < GRID_SIZE
             /\ ~(\E i \in DOMAIN path : path[i] = n)
          THEN LET res == search(g, t, n[1], n[2], Append(path, <<r, c>>), str)
               IN IF res.found THEN res
                  ELSE searchNeighbors(g, t, r, c, path, str, k + 1)
          ELSE searchNeighbors(g, t, r, c, path, str, k + 1)

RECURSIVE findFirstWordFrom(_, _, _)
\* the row-major loop over the start cells, from cell number k on
findFirstWordFrom(g, t, k) ==
  IF k >= GRID_SIZE * GRID_SIZE THEN NoResult
  ELSE LET res == search(g, t, k \div GRID_SIZE, k % GRID_SIZE, <<>>, <<>>)
       IN IF res.found THEN res ELSE findFirstWordFrom(g, t, k + 1)

findFirstWord(g, t) == findFirstWordFrom(g, t, 0)

\* ------------------------------------------------------------------------
\* leaderboard (localStorage)
\* ------------------------------------------------------------------------
RECURSIVE InsertSorted(_, _, _)
\* e placed after every element that does not compare greater than it:
\* one step of the stable sort by (a, b) => b.score - a.score
InsertSorted(sorted, e, i) ==
  IF i > Len(sorted) THEN Append(sorted, e)
  ELSE IF sorted[i].score < e.score
       THEN SubSeq(sorted, 1, i - 1) \o <<e>> \o SubSeq(sorted, i, Len(sorted))
       ELSE InsertSorted(sorted, e, i + 1)

RECURSIVE SortByScoreDesc(_, _, _)
\* scores.sort((a, b) => b.score - a.score), stable, from index i on
SortByScoreDesc(scores, sorted, i) ==
  IF i > Len(scores) THEN sorted
  ELSE SortByScoreDesc(scores, InsertSorted(sorted, scores[i], 1), i + 1)

\* the sorted list stored whole, without slice(0, 10)
savedScoresUncut(stored, entry) ==
  SortByScoreDesc(Append(stored, entry), <<>>, 1)

\* the list saveScore stores for the mode
savedScores(stored, entry) ==
  LET scores == SortByScoreDesc(Append(stored, entry), <<>>, 1)
  IN SubSeq(scores, 1, Min(10, Len(scores)))

\* the value saveScore returns
saveScoreResult(stored, entry) ==
  LET topScores == savedScores(stored, entry)
  IN \E i \in DOMAIN topScores :
       topScores[i].date = entry.date /\ topScores[i].score = entry.score

\* ------------------------------------------------------------------------
\* match resolver: the pure parts of handleValidWord
\* ------------------------------------------------------------------------
\* SCORES[word.length] || SCORES[10] || 10
baseWordScore(len) == IF len \in DOMAIN SCORES THEN SCORES[len] ELSE SCORES[10]

InGrid(n) == n[1] >= 0 /\ n[1] < GRID_SIZE /\ n[2] >= 0 /\ n[2] < GRID_SIZE

Contains(coords, n) == \E i \in DOMAIN coords : coords[i] = n

RECURSIVE explodeAdjNoDedup(_, _, _, _, _)
\* adj.forEach without the isAlreadyExploded test
explodeAdjNoDedup(g, sel, bomb, exploded, k) ==
  IF k > 8 THEN exploded
  ELSE LET n == Neighbors(bomb[1], bomb[2])[k]
       IN IF /\ InGrid(n)
             /\ ~Contains(sel, n)
             /\ g[n[1]][n[2]].status # "EXPLODED"
          THEN explodeAdjNoDedup(g, sel, bomb, Append(exploded, n), k + 1)
          ELSE explodeAdjNoDedup(g, sel, bomb, exploded, k + 1)

RECURSIVE explodeAdj(_, _, _, _, _)
\* adj.forEach(n => ...) for one bomb, from neighbour k on
explodeAdj(g, sel, bomb, exploded, k) ==
  IF k > 8 THEN exploded
  ELSE LET n == Neighbors(bomb[1], bomb[2])[k]
       IN IF /\ InGrid(n)
             /\ ~Contains(sel, n)
             /\ ~Contains(exploded, n)
             /\ g[n[1]][n[2]].status # "EXPLODED"
          THEN explodeAdj(g, sel, bomb, Append(exploded, n), k + 1)
          ELSE explodeAdj(g, sel, bomb, exploded, k + 1)

RECURSIVE explodeBombs(_, _, _, _, _)
\* bombTiles.forEach(bomb => ...), from bomb number i on
explodeBombs(g, sel, bombTiles, exploded, i) ==
  IF i > Len(bombTiles) THEN exploded
  ELSE explodeBombs(g, sel, bombTiles,
                    explodeAdj(g, sel, bombTiles[i], exploded, 1), i + 1)

\* explodedTiles of handleValidWord
explodedTilesOf(g, sel) ==
  LET IsBombAt(s) == g[s[1]][s[2]].isBomb
      bombTiles == SelectSeq(sel, IsBombAt)
  IN explodeBombs(g, sel, bombTiles, <<>>, 1)

\* colorsInWord of handleValidWord
colorsInWordOf(g, sel) ==
  LET colors == [i \in DOMAIN sel |-> g[sel[i][1]][sel[i][2]].color]
      NotSpecial(c) == c # WILD_COLOR /\ c # "RAINBOW"
  IN SelectSeq(colors, NotSpecial)

hasWildOf(g, sel) == \E i \in DOMAIN sel : g[sel[i][1]][sel[i][2]].color = WILD_COLOR

isColorMatchOf(g, sel) ==
  LET colorsInWord == colorsInWordOf(g, sel)
  IN Len(colorsInWord) > 0 /\ Cardinality(Range(colorsInWord)) <= 1

\* totalScore where the colour bonus is applied on top of the gold bonus
totalScoreStacked(g, sel, word) ==
  LET afterGold == IF hasWildOf(g, sel) THEN baseWordScore(Len(word)) * 3
                   ELSE baseWordScore(Len(word))
      afterColor == IF isColorMatchOf(g, sel) THEN afterGold * 2 ELSE afterGold
  IN afterColor + Len(explodedTilesOf(g, sel)) * 50

\* totalScore of handleValidWord
totalScoreOf(g, sel, word) ==
  LET baseScore == baseWordScore(Len(word))
      multiplied == IF hasWildOf(g, sel) THEN baseScore * 3
                    ELSE IF isColorMatchOf(g, sel) THEN baseScore * 2
                    ELSE baseScore
  IN multiplied + Len(explodedTilesOf(g, sel)) * 50

\* bonusText of handleValidWord
bonusTextOf(g, sel) ==
  LET bonus == IF hasWildOf(g, sel) THEN "GOLD BONUS!"
               ELSE IF isColorMatchOf(g, sel) THEN "COLOR BONUS!"
               ELSE ""
  IN IF Len(explodedTilesOf(g, sel)) > 0 THEN <<"BOOM! ", bonus>> ELSE <<bonus>>

\* isShortPenalty with the NORMAL rule applied on every difficulty
isShortPenaltyAlways(diff, len) == len = 3

\* isShortPenalty of handleValidWord
isShortPenalty(diff, len) ==
  IF diff = "EASY" THEN FALSE
  ELSE IF diff = "NORMAL" THEN len = 3
  ELSE IF diff = "HARD" THEN len = 3 \/ len = 4
  ELSE FALSE

\* the streak counters and the type pushed on the spawn queue ("none": no
\* push), from the counters of the render and the word length
streakUpdate(diff, len, streakShort, streakLong) ==
  IF isShortPenalty(diff, len)
  THEN [streakShort |-> streakShort + 1, streakLong |-> 0,
        push |-> IF streakShort + 1 >= 2 THEN "BLOCKED" ELSE "none"]
  ELSE IF len >= 5
  THEN [streakShort |-> 0, streakLong |-> streakLong + 1,
        push |-> IF streakLong + 1 >= 2 THEN "BOMB" ELSE "none"]
  ELSE [streakShort |-> 0, streakLong |-> 0, push |-> "none"]

\* timeAdded: Math.ceil(len * Math.max(0.2, 1 - (level - 1) * 0.15)) plus the
\* bonus seconds, computed in hundredths
timeAddedOf(m, level, len, hasWild, isColorMatch) ==
  IF m # "TIMED" THEN 0
  ELSE LET difficultyMultiplier == Max(20, 100 - (level - 1) * 15)
           ceiled == (len * difficultyMultiplier + 99) \div 100
       IN ceiled + (IF hasWild THEN 3 ELSE IF isColorMatch THEN 2 ELSE 0)

\* the grid after the setGrid updater of handleValidWord
markRemoved(prev, sel, exploded) ==
  [r \in Rows |-> [c \in Cols |->
     IF Contains(exploded, <<r, c>>) THEN [prev[r][c] EXCEPT !.status = "EXPLODED"]
     ELSE IF Contains(sel, <<r, c>>) THEN [prev[r][c] EXCEPT !.status = "MATCHED"]
     ELSE prev[r][c]]]

\* updateTileStatus that leaves the tiles outside coords as they are
updateTileStatusKeep(prev, coords, status) ==
  [r \in Rows |-> [c \in Cols |->
     IF Contains(coords, <<r, c>>) THEN [prev[r][c] EXCEPT !.status = status]
     ELSE prev[r][c]]]

\* the grid after the setGrid updater of updateTileStatus
updateTileStatus(prev, coords, status) ==
  [r \in Rows |-> [c \in Cols |->
     IF Contains(coords, <<r, c>>) THEN [prev[r][c] EXCEPT !.status = status]
     ELSE [prev[r][c] EXCEPT !.status =
             IF prev[r][c].status = "MATCHED" \/ prev[r][c].status = "EXPLODED"
             THEN prev[r][c].status ELSE "IDLE"]]]

\* selectionAfterMove whose backtrack drops two coordinates
selectionAfterMoveDropTwo(g, sel, rc) ==
  IF g[rc[1]][rc[2]].isBlocked THEN sel
  ELSE IF Len(sel) > 1 /\ sel[Len(sel) - 1] = rc
  THEN SubSeq(sel, 1, Len(sel) - 2)
  ELSE IF ~Contains(sel, rc) /\ isAdjacent(sel[Len(sel)], rc)
  THEN Append(sel, rc)
  ELSE sel

\* the move without the test that refuses blocked tiles
selectionAfterMoveIntoBlocked(g, sel, rc) ==
  IF Len(sel) > 1 /\ sel[Len(sel) - 1] = rc
  THEN SubSeq(sel, 1, Len(sel) - 1)
  ELSE IF ~Contains(sel, rc) /\ isAdjacent(sel[Len(sel)], rc)
  THEN Append(sel, rc)
  ELSE sel

\* the selection handleTouchMove passes to evaluateSelection for a move over
\* tile rc with a non-empty selection sel; sel itself when the move is ignored
selectionAfterMove(g, sel, rc) ==
  IF g[rc[1]][rc[2]].isBlocked THEN sel
  ELSE IF Len(sel) > 1 /\ sel[Len(sel) - 1] = rc
  THEN SubSeq(sel, 1, Len(sel) - 1)
  ELSE IF ~Contains(sel, rc) /\ isAdjacent(sel[Len(sel)], rc)
  THEN Append(sel, rc)
  ELSE sel

\* the status evaluateSelection computes for a selection
selectionStatus(g, t, currentSelection) ==
  LET word == WordOf(g, currentSelection)
      lookup == TrieSearch(t, word)
  IN IF Len(word) > 0 /\ lookup = 2 /\ Len(word) >= MIN_WORD_LENGTH THEN "VALID"
     ELSE IF Len(word) > 0 /\ lookup # 0 THEN "SELECTED"
     ELSE "REJECT"

\* ------------------------------------------------------------------------
\* refill: the setGrid updater of applyGravity
\* ------------------------------------------------------------------------
\* what indexing an array past its end yields
UndefinedTile ==
  [id |-> 0, letter |-> "", status |-> "UNDEFINED", color |-> "",
   isNew |-> FALSE, isBlocked |-> FALSE, isBomb |-> FALSE]

ElemAt(arr, i) == IF i \in DOMAIN arr THEN arr[i] ELSE UndefinedTile

\* the draws of Math.random for the k-th tile of a refill: a finite stream,
\* continued by draws that roll a blocked tile
BlockedDraw == [roll |-> 0, letter |-> "E", wild |-> 50, color |-> 1]
DrawAt(draws, k) == IF k \in DOMAIN draws THEN draws[k] ELSE BlockedDraw

\* colTiles: the surviving tiles of column c, top to bottom, isNew cleared
colTilesOf(prev, c) ==
  LET col == [i \in 1..GRID_SIZE |-> prev[i - 1][c]]
      Survives(t) == t.status # "MATCHED" /\ t.status # "EXPLODED"
      kept == SelectSeq(col, Survives)
  IN [i \in DOMAIN kept |-> [kept[i] EXCEPT !.isNew = FALSE]]

RECURSIVE newTilesOfKeep(_, _, _, _, _, _, _, _)
\* newTiles whose forced type is read from the queue but never shifted
newTilesOfKeep(needed, queue, k, id, level, m, draws, tiles) ==
  IF needed <= 0 THEN [tiles |-> tiles, queue |-> queue, k |-> k, id |-> id]
  ELSE LET forced == IF Len(queue) > 0 THEN Head(queue) ELSE "none"
       IN newTilesOfKeep(needed - 1, queue, k + 1, id + 1, level, m, draws,
                         Append(tiles, generateTile(level, m, TRUE, forced,
                                                    DrawAt(draws, k + 1), id)))

RECURSIVE newTilesOfLast(_, _, _, _, _, _, _, _)
\* newTilesOf that takes the forced type from the end of the queue (pop
\* instead of shift)
newTilesOfLast(needed, queue, k, id, level, m, draws, tiles) ==
  IF needed <= 0 THEN [tiles |-> tiles, queue |-> queue, k |-> k, id |-> id]
  ELSE LET forced == IF Len(queue) > 0 THEN queue[Len(queue)] ELSE "none"
           rest == IF Len(queue) > 0 THEN SubSeq(queue, 1, Len(queue) - 1) ELSE queue
           tile == generateTile(level, m, TRUE, forced, DrawAt(draws, k + 1), id)
       IN newTilesOfLast(needed - 1, rest, k + 1, id + 1, level, m, draws,
                         Append(tiles, tile))

RECURSIVE newTilesOf(_, _, _, _, _, _, _, _)
\* Array.from({length: needed}).map(...): the tiles still to generate, with
\* the spawn queue, the number of tiles generated so far in this refill and
\* the next fresh id threaded through
newTilesOf(needed, queue, k, id, level, m, draws, tiles) ==
  IF needed <= 0 THEN [tiles |-> tiles, queue |-> queue, k |-> k, id |-> id]
  ELSE LET forced == IF Len(queue) > 0 THEN Head(queue) ELSE "none"
           rest == IF Len(queue) > 0 THEN Tail(queue) ELSE queue
           tile == generateTile(level, m, TRUE, forced, DrawAt(draws, k + 1), id)
       IN newTilesOf(needed - 1, rest, k + 1, id + 1, level, m, draws,
                     Append(tiles, tile))

\* mergedCol with the new tiles below the survivors
mergedColSurvivorsFirst(newTiles, colTiles) == colTiles \o newTiles

\* mergedCol = [...newTiles, ...colTiles]
mergedColOf(newTiles, colTiles) == newTiles \o colTiles

RECURSIVE gravityCols(_, _, _, _, _, _, _, _, _)
\* the loop over the columns, from column c on; cols collects the merged
\* columns
gravityCols(prev, c, queue, k, id, level, m, draws, cols) ==
  IF c >= GRID_SIZE
  THEN [cols |-> cols, queue |-> queue, id |-> id]
  ELSE LET colTiles == colTilesOf(prev, c)
           needed == GRID_SIZE - Len(colTiles)
           gen == newTilesOf(needed, queue, k, id, level, m, draws, <<>>)
       IN gravityCols(prev, c + 1, gen.queue, gen.k, gen.id, level, m, draws,
                      Append(cols, mergedColOf(gen.tiles, colTiles)))

\* the result of the updater: the new grid, the spawn queue left and the
\* next fresh id
gravityResult(prev, queue, id, level, m, draws) ==
  LET res == gravityCols(prev, 0, queue, 0, id, level, m, draws, <<>>)
  IN [grid |-> [r \in Rows |-> [c \in Cols |-> ElemAt(res.cols[c + 1], r + 1)]],
      queue |-> res.queue,
      id |-> res.id]

\* the grid after the setGrid updater of the flash timeout
flashResetGrid(prev) ==
  [r \in Rows |-> [c \in Cols |->
     [prev[r][c] EXCEPT
        !.status = IF prev[r][c].status = "EXPLODED" THEN "EXPLODED" ELSE "IDLE",
        !.isNew = FALSE]]]

\* ------------------------------------------------------------------------
\* inputs of the model: the fetched word list and the draws of Math.random
\* ------------------------------------------------------------------------
\* the lines of the fetched word list
DictionaryLines ==
  << <<"c", "a", "t">>,
     <<"C", "A", "T", "S">>,
     <<"C", "A", "S", "T", "E">>,
     <<"a", "t">>,
     <<"C", "A", "S", "S", "E", "T", "T", "E", "S", "E", "S">> >>

\* draws that make generateTile return a normal tile of the colour
\* TILE_COLORS[ci], a wild tile, a bomb tile
NormalDraw(letter, ci) == [roll |-> 50, letter |-> letter, wild |-> 50, color |-> ci]
WildDraw(letter) == [roll |-> 50, letter |-> letter, wild |-> 0, color |-> 1]
BombDraw(letter) == [roll |-> 7, letter |-> letter, wild |-> 50, color |-> 1]

BlockedRow == <<BlockedDraw, BlockedDraw, BlockedDraw, BlockedDraw, BlockedDraw, BlockedDraw>>

\* the six rows of draws, flattened row-major
FlattenRows(rows) ==
  [k \in 1..(GRID_SIZE * GRID_SIZE) |->
     rows[((k - 1) \div GRID_SIZE) + 1][((k - 1) % GRID_SIZE) + 1]]

\* C A T S in the top row: CAT is colour-matched, CATS is not
LayoutRow ==
  FlattenRows(<< <<NormalDraw("C", 1), NormalDraw("A", 1), NormalDraw("T", 1),
                   NormalDraw("S", 2), BlockedDraw, BlockedDraw>>,
                 BlockedRow, BlockedRow, BlockedRow, BlockedRow, BlockedRow >>)

\* C A S T E in the top row, two colours
LayoutLong ==
  FlattenRows(<< <<NormalDraw("C", 1), NormalDraw("A", 2), NormalDraw("S", 1),
                   NormalDraw("T", 1), NormalDraw("E", 1), BlockedDraw>>,
                 BlockedRow, BlockedRow, BlockedRow, BlockedRow, BlockedRow >>)

\* C A T down column 2 from row 2, C and A bombs with overlapping blast
\* radii and T wild, blocked tiles all around: every column in the blast keeps
\* a survivor above and one below the removed tiles
LayoutBombs ==
  FlattenRows(<< BlockedRow, BlockedRow,
                 <<BlockedDraw, BlockedDraw, BombDraw("C"), BlockedDraw,
                   BlockedDraw, BlockedDraw>>,
                 <<BlockedDraw, BlockedDraw, BombDraw("A"), BlockedDraw,
                   BlockedDraw, BlockedDraw>>,
                 <<BlockedDraw, BlockedDraw, WildDraw("T"), BlockedDraw,
                   BlockedDraw, BlockedDraw>>,
                 BlockedRow >>)

InitialLayouts == {LayoutRow, LayoutLong, LayoutBombs}

\* C A T down column 2 from row 2, all three bombs, blocked tiles all around:
\* the twelve tiles around the word explode and the word is worth a level
LayoutBlast ==
  FlattenRows(<< BlockedRow, BlockedRow,
                 <<BlockedDraw, BlockedDraw, BombDraw("C"), BlockedDraw,
                   BlockedDraw, BlockedDraw>>,
                 <<BlockedDraw, BlockedDraw, BombDraw("A"), BlockedDraw,
                   BlockedDraw, BlockedDraw>>,
                 <<BlockedDraw, BlockedDraw, BombDraw("T"), BlockedDraw,
                   BlockedDraw, BlockedDraw>>,
                 BlockedRow >>)

\* the layouts of the games of the countdown specification
TimedLayouts == {LayoutRow, LayoutBlast}

\* the games the model starts, as difficulty, mode and draws of the initial
\* grid: the first game of a session, and the games started after it
FirstGames ==
  { <<"NORMAL", "CASUAL", LayoutRow>>,
    <<"HARD", "TIMED", LayoutRow>>,
    <<"EASY", "CASUAL", LayoutRow>>,
    <<"NORMAL", "TIMED", LayoutLong>>,
    <<"NORMAL", "CASUAL", LayoutBombs>>,
    <<"HARD", "TIMED", LayoutBlast>> }

LaterGames ==
  { <<"NORMAL", "CASUAL", LayoutRow>>,
    <<"HARD", "TIMED", LayoutRow>> }

GameStarts(started) == IF started = 0 THEN FirstGames ELSE LaterGames

\* the streams of draws a refill may see: bombs C A T, and C A S T E with a
\* wild C
RefillStreams ==
  { <<BombDraw("C"), BombDraw("A"), BombDraw("T")>>,
    <<WildDraw("C"), NormalDraw("A", 1), NormalDraw("S", 1),
      NormalDraw("T", 1), NormalDraw("E", 1)>> }

\* ------------------------------------------------------------------------
\* state of the component App
\* ------------------------------------------------------------------------
VARIABLES
  screen,             \* useState<Screen>
  mode,               \* useState<GameMode>
  difficulty,         \* useState<Difficulty>
  grid,               \* useState<TileData[][]>, <<>> before the first game
  selection,          \* useState<Coordinate[]>
  gameState,          \* useState<GameState>
  animating,          \* useState(false)
  feedback,           \* useState<{text, type}>
  dictionary,         \* useState<Set<string>>
  trie,               \* useState<Trie | null>
  isLoading,          \* useState(true)
  isHighScore,        \* useState(false)
  specialSpawnQueue,  \* useRef<('BLOCKED' | 'BOMB')[]>
  timers,             \* pending setTimeout callbacks of the handlers
  casualTimer,        \* the timeout of the casual game-over effect
  intervals,          \* countdown intervals registered and not cleared
  timerRef,           \* useRef<number | null>: last interval id, 0 for null
  leaderboard,        \* localStorage, one list per mode
  nextId,             \* ids not yet given out by generateId
  games,              \* startGame calls so far
  lastOp              \* the handler or callback that ran last

vars == <<screen, mode, difficulty, grid, selection, gameState, animating,
          feedback, dictionary, trie, isLoading, isHighScore,
          specialSpawnQueue, timers, casualTimer, intervals, timerRef,
          leaderboard, nextId, games, lastOp>>

\* the initial value of useState<GameState>; lastScoreAdded is <<>> for null
\* and <<n>> for a number
InitialGameState ==
  [score |-> 0, wordCount |-> 0, bestWord |-> <<>>, lastScoreAdded |-> <<>>,
   level |-> 1, timeLeft |-> 60, targetScore |-> 500,
   streakShort |-> 0, streakLong |-> 0]

NoFeedback == [text |-> <<>>, type |-> ""]

NoCasualTimer ==
  [pending |-> FALSE, gameState |-> InitialGameState, mode |-> "CASUAL",
   grid |-> <<>>]

\* a pending one-shot callback; level and mode are the values of the render
\* that scheduled it (read by applyGravity in the settle callback), game is
\* the session (number of startGame calls) in which it was scheduled
Timer(kind, level, m) ==
  [kind |-> kind, level |-> level, mode |-> m, game |-> games]
FlashTimer == Timer("flash", 0, "")
FeedbackTimer == Timer("feedbackClear", 0, "")

Init ==
  /\ screen = "MENU"
  /\ mode = "CASUAL"
  /\ difficulty = "NORMAL"
  /\ grid = <<>>
  /\ selection = <<>>
  /\ gameState = InitialGameState
  /\ animating = FALSE
  /\ feedback = NoFeedback
  /\ dictionary = {}
  /\ trie = NullTrie
  /\ isLoading = TRUE
  /\ isHighScore = FALSE
  /\ specialSpawnQueue = <<>>
  /\ timers = {}
  /\ casualTimer = NoCasualTimer
  /\ intervals = {}
  /\ timerRef = 0
  /\ leaderboard = [CASUAL |-> <<>>, TIMED |-> <<>>]
  /\ nextId = 1
  /\ games = 0
  /\ lastOp = "init"

\* the casual game-over effect without the clearTimeout of its cleanup: a
\* timeout that is pending stays as it is
CasualEffectNoCleanup ==
  casualTimer' =
    IF screen' = "GAME" /\ mode' = "CASUAL" /\ ~animating' /\ ~trie'.isNull
    THEN IF casualTimer.pending THEN casualTimer
         ELSE [pending |-> TRUE, gameState |-> gameState', mode |-> mode',
               grid |-> grid']
    ELSE NoCasualTimer

\* the casual game-over effect after a render in which one of its
\* dependencies [grid, animating, screen, mode, trie] changed: the pending
\* timeout is cleared and, if the condition holds, a new one is set whose
\* callback closes over that render (its grid, and the gameState and mode
\* that endGame reads)
CasualEffect ==
  casualTimer' =
    IF screen' = "GAME" /\ mode' = "CASUAL" /\ ~animating' /\ ~trie'.isNull
    THEN [pending |-> TRUE, gameState |-> gameState', mode |-> mode',
          grid |-> grid']
    ELSE NoCasualTimer

\* clearInterval that removes nothing
clearedIntervalsNone(ints, id) == ints

\* clearInterval(id): the interval with that id, if any, is removed
clearedIntervals(ints, id) == {i \in ints : i.id # id}

\* the timer effect after a render in which screen or mode changed, ints
\* being the intervals left by the handler: its cleanup clears the interval
\* named by timerRef.current and, if the game screen of the timed mode is
\* shown, a new interval is registered whose callback closes over that
\* render (endGame reads its gameState and mode)
TimerEffectFrom(ints) ==
  IF screen' = screen /\ mode' = mode
  THEN /\ intervals' = ints
       /\ timerRef' = timerRef
  ELSE IF screen' = "GAME" /\ mode' = "TIMED"
       THEN /\ intervals' = clearedIntervals(ints, timerRef) \cup
                              {[id |-> timerRef + 1, gameState |-> gameState',
                                mode |-> mode']}
            /\ timerRef' = timerRef + 1
       ELSE /\ intervals' = clearedIntervals(ints, timerRef)
            /\ timerRef' = timerRef

TimerEffect == TimerEffectFrom(intervals)

\* ------------------------------------------------------------------------
\* loadDictionary effect
\* ------------------------------------------------------------------------
LoadDictionary ==
  /\ isLoading
  /\ LET words == LoadedWords(DictionaryLines)
     IN /\ dictionary' = DictSetOf(words)
        /\ trie' = TrieOf(words)
  /\ isLoading' = FALSE
  /\ lastOp' = "loadDictionary"
  /\ UNCHANGED <<screen, mode, difficulty, grid, selection, gameState,
                 animating, feedback, isHighScore, specialSpawnQueue, timers,
                 leaderboard, nextId, games, intervals, timerRef>>
  /\ CasualEffect

\* the catch branch: fetch failed
LoadDictionaryFailed ==
  /\ isLoading
  /\ feedback' = [text |-> <<"Error loading words.">>, type |-> "error"]
  /\ isLoading' = FALSE
  /\ lastOp' = "loadDictionaryFailed"
  /\ UNCHANGED <<screen, mode, difficulty, grid, selection, gameState,
                 animating, dictionary, trie, isHighScore, specialSpawnQueue,
                 timers, casualTimer, leaderboard, nextId, games, intervals,
                 timerRef>>

\* ------------------------------------------------------------------------
\* navigation
\* ------------------------------------------------------------------------
\* the difficulty buttons of the menu
SetDifficulty(d) ==
  /\ ~isLoading
  /\ screen = "MENU"
  /\ d # difficulty
  /\ difficulty' = d
  /\ lastOp' = "setDifficulty"
  /\ UNCHANGED <<screen, mode, grid, selection, gameState, animating,
                 feedback, dictionary, trie, isLoading, isHighScore,
                 specialSpawnQueue, timers, casualTimer, leaderboard, nextId,
                 games, intervals, timerRef>>

startGame(selectedMode, draws) ==
  /\ ~isLoading
  /\ screen = "MENU"
  /\ games < MaxGames
  /\ <<difficulty, selectedMode, draws>> \in GameStarts(games)
  /\ mode' = selectedMode
  /\ grid' = createInitialGrid(1, selectedMode, draws)
  /\ gameState' = [score |-> 0, wordCount |-> 0, bestWord |-> <<>>,
                   lastScoreAdded |-> <<>>, level |-> 1,
                   timeLeft |-> IF selectedMode = "TIMED" THEN 60 ELSE 0,
                   targetScore |-> 500, streakShort |-> 0, streakLong |-> 0]
  /\ specialSpawnQueue' = <<>>
  /\ selection' = <<>>
  /\ isHighScore' = FALSE
  /\ screen' = "GAME"
  /\ nextId' = GRID_SIZE * GRID_SIZE + 1
  /\ games' = games + 1
  /\ lastOp' = "startGame"
  /\ UNCHANGED <<difficulty, animating, feedback, dictionary, trie, isLoading,
                 timers, leaderboard>>
  /\ TimerEffect
  /\ CasualEffect

\* a game is left for the menu or the leaderboard only while another game
\* can still be started
CanLeaveGame == games < MaxGames

\* the MENU buttons of the game, game-over and leaderboard screens; on the
\* game screen the model presses MENU only between drags (no selection in
\* progress) or while a submission is being animated
GoMenu ==
  /\ ~isLoading
  /\ screen \in {"GAME", "GAMEOVER", "LEADERBOARD"}
  /\ screen \in {"GAME", "GAMEOVER"} => CanLeaveGame
  /\ screen = "GAME" => (Len(selection) = 0 \/ animating)
  /\ screen' = "MENU"
  /\ lastOp' = "menu"
  /\ UNCHANGED <<mode, difficulty, grid, selection, gameState, animating,
                 feedback, dictionary, trie, isLoading, isHighScore,
                 specialSpawnQueue, timers, leaderboard, nextId, games>>
  /\ TimerEffect
  /\ CasualEffect

\* the leaderboard buttons of the menu and of the game-over screen
GoLeaderboard ==
  /\ ~isLoading
  /\ screen \in {"MENU", "GAMEOVER"}
  /\ screen = "GAMEOVER" => CanLeaveGame
  /\ screen' = "LEADERBOARD"
  /\ lastOp' = "leaderboard"
  /\ UNCHANGED <<mode, difficulty, grid, selection, gameState, animating,
                 feedback, dictionary, trie, isLoading, isHighScore,
                 specialSpawnQueue, timers, leaderboard, nextId, games>>
  /\ TimerEffect
  /\ CasualEffect

\* a target raised by 500 only
nextTargetScoreFlat(targetScore) == targetScore + 500

\* Math.floor(prev.targetScore * 1.5) + 500
nextTargetScore(targetScore) == ((targetScore * 3) \div 2) + 500

nextLevel ==
  /\ ~isLoading
  /\ screen = "LEVEL_UP"
  /\ gameState' = [gameState EXCEPT
                     !.level = @ + 1,
                     !.targetScore = nextTargetScore(@),
                     !.timeLeft = @ + 15]
  /\ screen' = "GAME"
  /\ lastOp' = "nextLevel"
  /\ UNCHANGED <<mode, difficulty, grid, selection, animating, feedback,
                 dictionary, trie, isLoading, isHighScore, specialSpawnQueue,
                 timers, leaderboard, nextId, games>>
  /\ TimerEffect
  /\ CasualEffect

\* endGame as called from a callback that closed over the render with
\* game state gs and mode m; date is Date.now()
endGame(gs, m, date) ==
  LET entry == [score |-> gs.score, bestWord |-> gs.bestWord, date |-> date,
                level |-> IF m = "TIMED" THEN <<gs.level>> ELSE <<>>]
  IN /\ leaderboard' = [leaderboard EXCEPT ![m] = savedScores(@, entry)]
     /\ isHighScore' = saveScoreResult(leaderboard[m], entry)
     /\ screen' = "GAMEOVER"

\* ------------------------------------------------------------------------
\* input handlers; an event whose handler returns before any state update
\* is a stuttering step, so the early returns are guards
\* ------------------------------------------------------------------------
\* the player still has words to play in this session (bound of the model)
InputOpen == gameState.wordCount < MaxWords

\* evaluateSelection without its test of the trie: with no trie nothing is
\* a prefix and the status is REJECT
evaluateSelectionUnchecked(currentSelection) ==
  /\ selection' = currentSelection
  /\ grid' = updateTileStatus(grid, currentSelection,
                              IF trie.isNull THEN "REJECT"
                              ELSE selectionStatus(grid, trie, currentSelection))

\* evaluateSelection: nothing without a trie, else setSelection and
\* updateTileStatus
evaluateSelection(currentSelection) ==
  IF trie.isNull
  THEN UNCHANGED <<selection, grid>>
  ELSE /\ selection' = currentSelection
       /\ grid' = updateTileStatus(grid, currentSelection,
                                   selectionStatus(grid, trie, currentSelection))

handleTouchStart(rc) ==
  /\ ~isLoading
  /\ screen = "GAME"
  /\ InputOpen
  /\ ~animating
  /\ ~grid[rc[1]][rc[2]].isBlocked
  /\ evaluateSelection(<<rc>>)
  /\ feedback' = NoFeedback
  /\ lastOp' = "touchStart"
  /\ UNCHANGED <<screen, mode, difficulty, gameState, animating,
                 dictionary, trie, isLoading, isHighScore,
                 specialSpawnQueue, timers, leaderboard, nextId, games,
                 intervals, timerRef>>
  /\ IF trie.isNull THEN UNCHANGED casualTimer ELSE CasualEffect

\* bestWord replaced by every accepted word
bestWordLatest(prev, word) == word

\* bestWord of the setGameState updater of handleValidWord
bestWordOf(prev, word) == IF Len(word) > Len(prev) THEN word ELSE prev

\* handleValidWord (spawnFlyingTiles only feeds the presentation layer and
\* is left out)
handleValidWord(word) ==
  LET explodedTiles == explodedTilesOf(grid, selection)
      hasWild == hasWildOf(grid, selection)
      isColorMatch == isColorMatchOf(grid, selection)
      totalScore == totalScoreOf(grid, selection, word)
      streak == streakUpdate(difficulty, Len(word),
                             gameState.streakShort, gameState.streakLong)
      timeAdded == timeAddedOf(mode, gameState.level, Len(word),
                               hasWild, isColorMatch)
      extraText == IF mode = "TIMED"
                   THEN <<"+", ToString(timeAdded), "s ">> \o bonusTextOf(grid, selection)
                   ELSE bonusTextOf(grid, selection)
  IN /\ animating' = TRUE
     /\ grid' = markRemoved(grid, selection, explodedTiles)
     /\ specialSpawnQueue' = IF streak.push = "none" THEN specialSpawnQueue
                             ELSE Append(specialSpawnQueue, streak.push)
     /\ feedback' = [text |-> word \o <<" ">> \o extraText,
                     type |-> IF hasWild THEN "gold" ELSE "success"]
     /\ gameState' = [gameState EXCEPT
                        !.score = @ + totalScore,
                        !.wordCount = @ + 1,
                        !.bestWord = bestWordOf(@, word),
                        !.lastScoreAdded = <<totalScore>>,
                        !.timeLeft = @ + timeAdded,
                        !.streakShort = streak.streakShort,
                        !.streakLong = streak.streakLong]
     /\ timers' = timers \cup {Timer("settle", gameState.level, mode)}
     /\ lastOp' = "handleValidWord"
     /\ UNCHANGED <<screen, mode, difficulty, selection, dictionary, trie,
                    isLoading, isHighScore, leaderboard, nextId, games,
                    intervals, timerRef>>
     /\ CasualEffect

handleInvalidWord ==
  /\ animating' = TRUE
  /\ grid' = [r \in Rows |-> [c \in Cols |->
                IF Contains(selection, <<r, c>>)
                THEN [grid[r][c] EXCEPT !.status = "INVALID"]
                ELSE grid[r][c]]]
  /\ timers' = timers \cup {FlashTimer}
  /\ lastOp' = "handleInvalidWord"
  /\ UNCHANGED <<screen, mode, difficulty, selection, gameState, feedback,
                 dictionary, trie, isLoading, isHighScore, specialSpawnQueue,
                 leaderboard, nextId, games, intervals, timerRef>>
  /\ CasualEffect

\* the test of handleTouchEnd with only the trie consulted
isValidSubmissionByPrefix(word) ==
  Len(word) >= MIN_WORD_LENGTH /\ TrieSearch(trie, word) # 0

\* the test of handleTouchEnd
isValidSubmission(word) ==
  Len(word) >= MIN_WORD_LENGTH /\ word \in dictionary

\* the body of handleTouchEnd after its guard
submitSelection ==
  LET word == WordOf(grid, selection)
  IN IF isValidSubmission(word)
     THEN InputOpen /\ handleValidWord(word)
     ELSE handleInvalidWord

\* handleTouchMove over tile rc: primaryDown is FALSE for a mouse event with
\* the primary button released, which the handler passes to handleTouchEnd
handleTouchMove(rc, primaryDown) ==
  /\ ~isLoading
  /\ screen = "GAME"
  /\ ~animating
  /\ Len(selection) > 0
  /\ IF ~primaryDown
     THEN submitSelection
     ELSE LET newSelection == selectionAfterMove(grid, selection, rc)
          IN /\ newSelection # selection
             /\ ~trie.isNull
             /\ evaluateSelection(newSelection)
             /\ lastOp' = IF Len(newSelection) < Len(selection)
                          THEN "backtrack" ELSE "append"
             /\ UNCHANGED <<screen, mode, difficulty, gameState, animating,
                            feedback, dictionary, trie, isLoading,
                            isHighScore, specialSpawnQueue, timers,
                            leaderboard, nextId, games, intervals, timerRef>>
             /\ CasualEffect

\* handleTouchEnd: mouse up, touch end, and the mouse leaving the grid
handleTouchEnd ==
  /\ ~isLoading
  /\ screen = "GAME"
  /\ ~animating
  /\ Len(selection) > 0
  /\ submitSelection

\* showHint: the HINT button is rendered on the game screen in casual mode
showHint ==
  /\ ~isLoading
  /\ screen = "GAME"
  /\ mode = "CASUAL"
  /\ InputOpen
  /\ ~trie.isNull
  /\ ~animating
  /\ LET move == findFirstWord(grid, trie)
     IN IF move.found
        THEN /\ feedback' = [text |-> <<"Word found!">>, type |-> "success"]
             /\ selection' = move.path
             /\ grid' = [r \in Rows |-> [c \in Cols |->
                           IF Contains(move.path, <<r, c>>)
                           THEN [grid[r][c] EXCEPT !.status = "SELECTED"]
                           ELSE grid[r][c]]]
             /\ lastOp' = "showHint"
             /\ UNCHANGED <<screen, mode, difficulty, gameState, animating,
                            dictionary, trie, isLoading, isHighScore,
                            specialSpawnQueue, timers, leaderboard, nextId,
                            games, intervals, timerRef>>
             /\ CasualEffect
        ELSE /\ feedback' = [text |-> <<"No words found!">>, type |-> "error"]
             /\ lastOp' = "showHintNone"
             /\ UNCHANGED <<screen, mode, difficulty, grid, selection,
                            gameState, animating, dictionary, trie, isLoading,
                            isHighScore, specialSpawnQueue, timers,
                            casualTimer, leaderboard, nextId, games,
                            intervals, timerRef>>

\* the flash reset without its setAnimating(false)
FlashTimeoutKeepsGate(t) ==
  /\ t \in timers
  /\ t.kind = "flash"
  /\ selection' = <<>>
  /\ grid' = flashResetGrid(grid)
  /\ animating' = animating
  /\ timers' = timers \ {t}
  /\ lastOp' = "flashTimeout"
  /\ UNCHANGED <<screen, mode, difficulty, gameState, feedback, dictionary,
                 trie, isLoading, isHighScore, specialSpawnQueue, leaderboard,
                 nextId, games, intervals, timerRef>>
  /\ CasualEffect

\* ------------------------------------------------------------------------
\* scheduled callbacks
\* ------------------------------------------------------------------------
\* the 400 ms timeout of handleInvalidWord
FlashTimeout(t) ==
  /\ t \in timers
  /\ t.kind = "flash"
  /\ selection' = <<>>
  /\ grid' = flashResetGrid(grid)
  /\ animating' = FALSE
  /\ timers' = timers \ {t}
  /\ lastOp' = "flashTimeout"
  /\ UNCHANGED <<screen, mode, difficulty, gameState, feedback, dictionary,
                 trie, isLoading, isHighScore, specialSpawnQueue, leaderboard,
                 nextId, games, intervals, timerRef>>
  /\ CasualEffect

\* the 600 ms timeout of handleValidWord: applyGravity, then the level-up
\* check; t.level and t.mode are what applyGravity reads from its render
SettleTimeout(t, draws) ==
  /\ t \in timers
  /\ t.kind = "settle"
  /\ LET res == gravityResult(grid, specialSpawnQueue, nextId, t.level, t.mode, draws)
     IN /\ grid' = res.grid
        /\ specialSpawnQueue' = res.queue
        /\ nextId' = res.id
  /\ selection' = <<>>
  /\ animating' = FALSE
  /\ timers' = (timers \ {t}) \cup {FeedbackTimer}
  /\ screen' = IF gameState.score >= gameState.targetScore THEN "LEVEL_UP" ELSE screen
  /\ lastOp' = "applyGravity"
  /\ UNCHANGED <<mode, difficulty, gameState, feedback, dictionary, trie,
                 isLoading, isHighScore, leaderboard, games>>
  /\ TimerEffect
  /\ CasualEffect

\* the 1000 ms timeout of applyGravity
FeedbackTimeout(t) ==
  /\ t \in timers
  /\ t.kind = "feedbackClear"
  /\ gameState' = [gameState EXCEPT !.lastScoreAdded = <<>>]
  /\ feedback' = NoFeedback
  /\ timers' = timers \ {t}
  /\ lastOp' = "feedbackTimeout"
  /\ UNCHANGED <<screen, mode, difficulty, grid, selection, animating,
                 dictionary, trie, isLoading, isHighScore, specialSpawnQueue,
                 casualTimer, leaderboard, nextId, games, intervals, timerRef>>

\* the dates Date.now() may return: not before any stored entry
Dates == 1..MaxDate
DateOk(date) ==
  \A m \in DOMAIN leaderboard : \A i \in DOMAIN leaderboard[m] :
     leaderboard[m][i].date <= date

\* the 800 ms timeout of the casual game-over effect: findFirstWord runs on
\* the grid of its closure (the trie changes only when the dictionary loads,
\* which re-runs the effect)
CasualTimeout(date) ==
  /\ casualTimer.pending
  /\ DateOk(date)
  /\ IF ~findFirstWord(casualTimer.grid, trie).found
     THEN /\ endGame(casualTimer.gameState, casualTimer.mode, date)
          /\ lastOp' = "endGame"
     ELSE /\ UNCHANGED <<leaderboard, isHighScore, screen>>
          /\ lastOp' = "casualCheck"
  /\ casualTimer' = NoCasualTimer
  /\ UNCHANGED <<mode, difficulty, grid, selection, gameState, animating,
                 feedback, dictionary, trie, isLoading, specialSpawnQueue,
                 timers, nextId, games>>
  /\ TimerEffectFrom(clearedIntervals(intervals, timerRef))

\* the test of the tick that lets the countdown pass zero
timeUpBelowZero(prev) == prev.timeLeft < 0

\* the test of the tick: prev.timeLeft <= 0
timeUp(prev) == prev.timeLeft <= 0

\* one tick of the countdown interval i: the updater of setGameState reads
\* the current game state; endGame is the one of the render that registered
\* the interval and also clears the interval named by timerRef.current
Tick(i, date) ==
  /\ i \in intervals
  /\ DateOk(date)
  /\ IF timeUp(gameState)
     THEN /\ endGame(i.gameState, i.mode, date)
          /\ lastOp' = "endGame"
          /\ UNCHANGED gameState
          /\ TimerEffectFrom(clearedIntervals(intervals, timerRef))
     ELSE /\ gameState' = [gameState EXCEPT !.timeLeft = @ - 1]
          /\ lastOp' = "tick"
          /\ UNCHANGED <<leaderboard, isHighScore, screen, intervals, timerRef>>
  /\ UNCHANGED <<mode, difficulty, grid, selection, animating, feedback,
                 dictionary, trie, isLoading, specialSpawnQueue, timers,
                 nextId, games>>
  /\ IF screen' = screen THEN UNCHANGED casualTimer ELSE CasualEffect

\* ------------------------------------------------------------------------
\* specification of the game
\* ------------------------------------------------------------------------
Next ==
  \/ LoadDictionary
  \/ LoadDictionaryFailed
  \/ \E d \in {"EASY", "NORMAL", "HARD"} : SetDifficulty(d)
  \/ \E m \in {"CASUAL", "TIMED"} : \E draws \in InitialLayouts : startGame(m, draws)
  \/ GoMenu
  \/ GoLeaderboard
  \/ nextLevel
  \/ \E rc \in Coords : handleTouchStart(rc)
  \/ \E rc \in Coords : handleTouchMove(rc, TRUE)
  \/ handleTouchMove(<<0, 0>>, FALSE)
  \/ handleTouchEnd
  \/ showHint
  \/ \E t \in timers : FlashTimeout(t)
  \/ \E t \in timers : \E draws \in RefillStreams : SettleTimeout(t, draws)
  \/ \E t \in timers : FeedbackTimeout(t)
  \/ \E date \in Dates : CasualTimeout(date)

Spec == Init /\ [][Next]_vars

\* ------------------------------------------------------------------------
\* Properties of the game (specification Spec)
\* ------------------------------------------------------------------------
\* input is accepted: the guards shared by the pointer handlers
InputAccepted == ~animating /\ ~isLoading /\ screen = "GAME"

Chebyshev(a, b) == Max(Abs(a[1] - b[1]), Abs(a[2] - b[2]))

\* a legal selection on grid g: pairwise distinct in-grid coordinates, each
\* at Chebyshev distance 1 from its predecessor, none on a blocked tile
LegalPath(g, path) ==
  /\ \A i \in 1..Len(path) :
       /\ path[i] \in Coords
       /\ ~g[path[i][1]][path[i][2]].isBlocked
  /\ \A i, j \in 1..Len(path) : i # j => path[i] # path[j]
  /\ \A i \in 1..(Len(path) - 1) : Chebyshev(path[i], path[i + 1]) = 1

Removed(tile) == tile.status \in {"MATCHED", "EXPLODED"}

\* C1: after every refill each column holds GRID_SIZE tiles (no hole, no tile
\* twice), and the tiles of the column that were not Matched/Exploded before
\* the refill occupy its bottom rows in their former top-to-bottom order
C1_GravityInvariant ==
  [][lastOp' = "applyGravity" =>
       \A c \in Cols :
         LET survivors == {r \in Rows : ~Removed(grid[r][c])}
             k == Cardinality(survivors)
         IN /\ \A r \in Rows : grid'[r][c].status # "UNDEFINED"
            /\ \A r1, r2 \in Rows :
                 r1 # r2 => grid'[r1][c].id # grid'[r2][c].id
            /\ \A r \in survivors :
                 LET below == Cardinality({q \in survivors : q > r})
                 IN grid'[GRID_SIZE - 1 - below][c]
                      = [grid[r][c] EXCEPT !.isNew = FALSE]
            /\ \A r \in 0..(GRID_SIZE - k - 1) :
                 /\ grid'[r][c].isNew
                 /\ \A q \in Rows : grid'[r][c].id # grid[q][c].id]_vars

\* C1 witness: a refill after which column 1 has new tiles on top and the
\* tiles that stood in rows 0 and 5 now stand in rows 4 and 5
C1_Witness ==
  /\ lastOp = "applyGravity"
  /\ grid[0][1].isNew /\ grid[3][1].isNew
  /\ grid[4][1].id = 2
  /\ grid[5][1].id = 32

\* C2: in every reachable state the selection is a legal path on the current
\* grid: distinct in-grid coordinates, consecutive ones at Chebyshev
\* distance exactly 1, none on a blocked tile
C2_SelectionPath ==
  IF grid = <<>> THEN selection = <<>> ELSE LegalPath(grid, selection)

\* C2 witness: in a game started after another one, a drag has grown the
\* selection to four tiles
C2_Witness == lastOp = "append" /\ Len(selection) >= 4 /\ games >= 2

\* C3: with input accepted and a selection of length k >= 2, a move onto the
\* second-to-last coordinate yields the selection without its last element;
\* a tile appended by a move is removed again by the move back; no move
\* empties a non-empty selection; and every backtrack step of the handler
\* shortens the selection by exactly its last element
C3_Backtrack ==
  /\ [](InputAccepted /\ Len(selection) >= 1 =>
          /\ Len(selection) >= 2 =>
               selectionAfterMove(grid, selection, selection[Len(selection) - 1])
                 = SubSeq(selection, 1, Len(selection) - 1)
          /\ \A rc \in Coords :
               LET moved == selectionAfterMove(grid, selection, rc)
               IN /\ Len(moved) >= 1
                  /\ Len(moved) > Len(selection) =>
                       selectionAfterMove(grid, moved, selection[Len(selection)])
                         = selection)
  /\ [][/\ lastOp' = "backtrack" =>
             /\ Len(selection) >= 2
             /\ selection' = SubSeq(selection, 1, Len(selection) - 1)
        /\ (lastOp' \in {"append", "backtrack"} /\ Len(selection) >= 1) =>
             Len(selection') >= 1]_vars

\* C3 witness: a backtrack has just shortened a selection of three or more
C3_Witness == lastOp = "backtrack" /\ Len(selection) >= 2

\* the letters of the selected tiles, concatenated
SelectedWord == WordOf(grid, selection)

\* C4: a release with a non-empty selection while input is accepted goes to
\* the match resolver iff the word has at least MIN_WORD_LENGTH letters and
\* is in the dictionary set; otherwise the invalid path is taken and score,
\* wordCount, bestWord, the streak counters and the spawn queue are unchanged
C4_Release ==
  [][(~animating /\ animating') =>
       /\ InputAccepted /\ Len(selection) >= 1
       /\ LET accepted == Len(SelectedWord) >= MIN_WORD_LENGTH
                            /\ SelectedWord \in dictionary
          IN IF accepted
             THEN /\ lastOp' = "handleValidWord"
                  /\ gameState'.wordCount = gameState.wordCount + 1
                  /\ \A i \in 1..Len(selection) :
                       grid'[selection[i][1]][selection[i][2]].status = "MATCHED"
             ELSE /\ lastOp' = "handleInvalidWord"
                  /\ \A i \in 1..Len(selection) :
                       grid'[selection[i][1]][selection[i][2]].status = "INVALID"
                  /\ FlashTimer \in timers'
                  /\ gameState' = gameState
                  /\ specialSpawnQueue' = specialSpawnQueue]_vars

\* C4 witness: a path of at least MIN_WORD_LENGTH letters that is a prefix of
\* a dictionary word but not a word has been rejected on release
C4_Witness ==
  /\ lastOp = "handleInvalidWord"
  /\ Len(SelectedWord) >= MIN_WORD_LENGTH
  /\ TrieSearch(trie, SelectedWord) = 1

\* the base score by word length, as a table
BaseByLength(len) ==
  CASE len = 3 -> 10 [] len = 4 -> 20 [] len = 5 -> 40 [] len = 6 -> 80
    [] len = 7 -> 150 [] len = 8 -> 300 [] len = 9 -> 500 [] OTHER -> 1000

\* the bonus multiplier of the path sel on grid g, from the colours in it
BonusMultiplier(g, sel) ==
  LET colors == {g[sel[i][1]][sel[i][2]].color : i \in 1..Len(sel)}
      plain == colors \ {WILD_COLOR, "RAINBOW"}
  IN IF WILD_COLOR \in colors THEN 3
     ELSE IF Cardinality(plain) = 1 THEN 2
     ELSE 1

ExplodedCoords(g) == {rc \in Coords : g[rc[1]][rc[2]].status = "EXPLODED"}

\* C5: the points added by an accepted word are base(len) x m plus 50 per
\* exploded tile, with m = 3 for a wild tile in the path, else 2 when the
\* tiles that are neither wild nor bomb-coloured exist and share one colour,
\* else 1
C5_Score ==
  [][lastOp' = "handleValidWord" =>
       LET added == BaseByLength(Len(SelectedWord))
                      * BonusMultiplier(grid, selection)
                    + 50 * Cardinality(ExplodedCoords(grid'))
       IN /\ gameState'.score = gameState.score + added
          /\ gameState'.lastScoreAdded = <<added>>]_vars

\* C5 witness: an accepted word whose path holds a wild tile and tiles of a
\* single plain colour, so that GOLD applies and COLOR does not
C5_Witness ==
  /\ lastOp = "handleValidWord"
  /\ \E i \in 1..Len(selection) :
       grid[selection[i][1]][selection[i][2]].color = WILD_COLOR
  /\ Cardinality({grid[selection[i][1]][selection[i][2]].color :
                    i \in 1..Len(selection)} \ {WILD_COLOR, "RAINBOW"}) = 1
  /\ gameState.lastScoreAdded = <<3 * BaseByLength(Len(selection))>>

\* the blast area: the in-grid 8-neighbours of the bomb tiles of
\* the path, the path itself excluded
BlastArea(g, sel) ==
  {n \in Coords :
     /\ \A i \in 1..Len(sel) : sel[i] # n
     /\ \E i \in 1..Len(sel) :
          g[sel[i][1]][sel[i][2]].isBomb /\ Chebyshev(sel[i], n) = 1}

\* C6: the tiles exploded by an accepted path are exactly the in-grid
\* 8-neighbours of its bomb tiles outside the path, each counted once for the
\* 50-point bonus, blocked tiles included
C6_Explosion ==
  [][lastOp' = "handleValidWord" =>
       /\ ExplodedCoords(grid') = BlastArea(grid, selection)
       /\ ExplodedCoords(grid') \cap Range(selection) = {}
       /\ gameState'.lastScoreAdded[1]
            - BaseByLength(Len(SelectedWord)) * BonusMultiplier(grid, selection)
            = 50 * Cardinality(BlastArea(grid, selection))]_vars

\* C6 witness: an accepted path with two adjacent bombs whose blast radii
\* overlap and hold blocked tiles
C6_Witness ==
  /\ lastOp = "handleValidWord"
  /\ Cardinality({i \in 1..Len(selection) :
                    grid[selection[i][1]][selection[i][2]].isBomb}) >= 2
  /\ \E rc \in ExplodedCoords(grid) :
       /\ grid[rc[1]][rc[2]].isBlocked
       /\ Cardinality({i \in 1..Len(selection) :
                         /\ grid[selection[i][1]][selection[i][2]].isBomb
                         /\ Chebyshev(selection[i], rc) = 1}) >= 2

TrieAlphabet == {"A", "B"}

\* the words inserted: every word of one to three letters over TrieAlphabet
TrieWords ==
  {<<a>> : a \in TrieAlphabet}
    \cup {<<a, b>> : a, b \in TrieAlphabet}
    \cup {<<a, b, c>> : a, b, c \in TrieAlphabet}

\* the strings searched: the words and their extensions by one letter
TrieQueries == TrieWords \cup {Append(w, a) : w \in TrieWords, a \in TrieAlphabet}

\* new Trie() in loadDictionary, before the first insert
InitTrie ==
  /\ screen = "MENU"
  /\ mode = "CASUAL"
  /\ difficulty = "NORMAL"
  /\ grid = <<>>
  /\ selection = <<>>
  /\ gameState = InitialGameState
  /\ animating = FALSE
  /\ feedback = NoFeedback
  /\ dictionary = {}
  /\ trie = NewTrie
  /\ isLoading = TRUE
  /\ isHighScore = FALSE
  /\ specialSpawnQueue = <<>>
  /\ timers = {}
  /\ casualTimer = NoCasualTimer
  /\ intervals = {}
  /\ timerRef = 0
  /\ leaderboard = [CASUAL |-> <<>>, TIMED |-> <<>>]
  /\ nextId = 1
  /\ games = 0
  /\ lastOp = "newTrie"

\* newTrie.insert(w); dictionary holds the words inserted so far
InsertWord(w) ==
  /\ isLoading
  /\ w \in dictionary \/ Cardinality(dictionary) < MaxInserts
  /\ trie' = TrieInsert(trie, w)
  /\ dictionary' = dictionary \cup {w}
  /\ lastOp' = "insert"
  /\ UNCHANGED <<screen, mode, difficulty, grid, selection, gameState,
                 animating, feedback, isLoading, isHighScore,
                 specialSpawnQueue, timers, casualTimer, intervals, timerRef,
                 leaderboard, nextId, games>>

NextTrie == \E w \in TrieWords : InsertWord(w)

SpecTrie == InitTrie /\ [][NextTrie]_vars

IsPrefix(s, w) == Len(s) <= Len(w) /\ SubSeq(w, 1, Len(s)) = s

\* C8: for the set of words inserted and every non-empty query s, search
\* returns 2 iff s was inserted, 1 iff s was not inserted and is a strict
\* prefix of an inserted word, 0 iff s is a prefix of no inserted word; and
\* inserting a word already present changes no search result
C8_TrieSearch ==
  /\ \A s \in TrieQueries :
       LET result == TrieSearch(trie, s)
       IN /\ result = 2 <=> s \in dictionary
          /\ result = 1 <=> /\ s \notin dictionary
                            /\ \E w \in dictionary : IsPrefix(s, w) /\ s # w
          /\ result = 0 <=> ~ \E w \in dictionary : IsPrefix(s, w)
  /\ \A w \in dictionary : \A s \in TrieQueries :
       TrieSearch(TrieInsert(trie, w), s) = TrieSearch(trie, s)

\* C8 witness: three words are in the trie, AB and its extension ABA among
\* them but not the prefix A, and the three results all occur
C8_Witness ==
  /\ lastOp = "insert"
  /\ dictionary = {<<"A", "B">>, <<"A", "B", "A">>, <<"B">>}
  /\ TrieSearch(trie, <<"A">>) = 1
  /\ TrieSearch(trie, <<"A", "B">>) = 2
  /\ TrieSearch(trie, <<"B", "A">>) = 0

\* ------------------------------------------------------------------------
\* Specification SpecFind: findFirstWord on casual games that have just
\* started, over a family of word lists and initial grids
\* ------------------------------------------------------------------------
\* a row of normal tiles of one colour; "" stands for a blocked tile
LetterRow(letters) ==
  [i \in 1..GRID_SIZE |->
     IF letters[i] = "" THEN BlockedDraw ELSE NormalDraw(letters[i], 1)]

\* C A S S E T in row 0 and S E T under its last three tiles: CASSETTES runs
\* along row 0 and back along row 1
LayoutSnake ==
  FlattenRows(<< LetterRow(<<"C", "A", "S", "S", "E", "T">>),
                 LetterRow(<<"", "", "", "S", "E", "T">>),
                 BlockedRow, BlockedRow, BlockedRow, BlockedRow >>)

\* CAT from right to left in the bottom row
LayoutReverse ==
  FlattenRows(<< BlockedRow, BlockedRow, BlockedRow, BlockedRow, BlockedRow,
                 LetterRow(<<"", "", "", "T", "A", "C">>) >>)

\* CAT down a diagonal
LayoutDiagonal ==
  FlattenRows(<< BlockedRow,
                 LetterRow(<<"", "C", "", "", "", "">>),
                 LetterRow(<<"", "", "A", "", "", "">>),
                 LetterRow(<<"", "", "", "T", "", "">>),
                 BlockedRow, BlockedRow >>)

\* two A next to C, only the lower one next to T
LayoutFork ==
  FlattenRows(<< LetterRow(<<"C", "A", "", "", "", "">>),
                 LetterRow(<<"A", "", "", "", "", "">>),
                 LetterRow(<<"T", "", "", "", "", "">>),
                 BlockedRow, BlockedRow, BlockedRow >>)

\* C and T apart, A blocked in between: no word
LayoutSplit ==
  FlattenRows(<< LetterRow(<<"C", "", "T", "S", "", "">>),
                 BlockedRow, BlockedRow, BlockedRow, BlockedRow, BlockedRow >>)

LayoutBlocked ==
  FlattenRows(<< BlockedRow, BlockedRow, BlockedRow, BlockedRow, BlockedRow,
                 BlockedRow >>)

FindLayouts ==
  {LayoutRow, LayoutLong, LayoutBombs, LayoutSnake, LayoutReverse,
   LayoutDiagonal, LayoutFork, LayoutSplit, LayoutBlocked}

\* the fetched word lists
FindDictionaries ==
  { DictionaryLines,
    <<>>,
    << <<"c", "a", "t">> >>,
    << <<"a", "t">>, <<"s", "e", "t">> >>,
    << <<"C", "A", "T", "S">>, <<"C", "A", "S", "T", "E">> >>,
    << <<"C", "A", "S", "S", "E", "T", "T">> >>,
    << <<"C", "A", "S", "S", "E", "T", "T", "E">> >>,
    << <<"C", "A", "S", "S", "E", "T", "T", "E", "S">> >>,
    << <<"C", "A", "S", "S", "E", "T", "T", "E", "S">>, <<"T", "E", "S", "T">> >> }

\* the state after loadDictionary on lines and startGame(CASUAL) with the
\* draws of layout
InitFind ==
  \E lines \in FindDictionaries : \E layout \in FindLayouts :
    /\ screen = "GAME"
    /\ mode = "CASUAL"
    /\ difficulty = "NORMAL"
    /\ grid = createInitialGrid(1, "CASUAL", layout)
    /\ selection = <<>>
    /\ gameState = [InitialGameState EXCEPT !.timeLeft = 0]
    /\ animating = FALSE
    /\ feedback = NoFeedback
    /\ dictionary = DictSetOf(LoadedWords(lines))
    /\ trie = TrieOf(LoadedWords(lines))
    /\ isLoading = FALSE
    /\ isHighScore = FALSE
    /\ specialSpawnQueue = <<>>
    /\ timers = {}
    /\ casualTimer = [pending |-> TRUE,
                      gameState |-> [InitialGameState EXCEPT !.timeLeft = 0],
                      mode |-> "CASUAL",
                      grid |-> createInitialGrid(1, "CASUAL", layout)]
    /\ intervals = {}
    /\ timerRef = 0
    /\ leaderboard = [CASUAL |-> <<>>, TIMED |-> <<>>]
    /\ nextId = GRID_SIZE * GRID_SIZE + 1
    /\ games = 1
    /\ lastOp = "startGame"

NextFind ==
  \/ showHint
  \/ \E date \in Dates : CasualTimeout(date)

SpecFind == InitFind /\ [][NextFind]_vars

RECURSIVE SpellsFrom(_, _, _, _, _)
\* some legal path spells word[i..] starting on tile rc and avoiding visited
SpellsFrom(g, word, i, rc, visited) ==
  /\ ~g[rc[1]][rc[2]].isBlocked
  /\ g[rc[1]][rc[2]].letter = word[i]
  /\ \/ i = Len(word)
     \/ \E n \in Coords \ (visited \cup {rc}) :
          /\ Chebyshev(rc, n) = 1
          /\ SpellsFrom(g, word, i + 1, n, visited \cup {rc})

\* some legal path on g spells word
CanSpell(g, word) == \E rc \in Coords : SpellsFrom(g, word, 1, rc, {})

\* some legal path on g spells a word of words with lo to hi letters
Playable(g, words, lo, hi) ==
  \E w \in words : Len(w) >= lo /\ Len(w) <= hi /\ CanSpell(g, w)

\* C9: a path returned by findFirstWord is a legal selection on the grid,
\* its letters spell a word for which the trie returns ExactWord, and its
\* length is between MIN_WORD_LENGTH and 8; a hint selects exactly that path
C9_FoundPath ==
  LET move == findFirstWord(grid, trie)
  IN /\ move.found =>
          /\ LegalPath(grid, move.path)
          /\ TrieSearch(trie, WordOf(grid, move.path)) = 2
          /\ Len(move.path) >= MIN_WORD_LENGTH
          /\ Len(move.path) <= 8
     /\ lastOp = "showHint" =>
          /\ LegalPath(grid, selection)
          /\ TrieSearch(trie, SelectedWord) = 2
          /\ Len(selection) \in MIN_WORD_LENGTH..8

\* C9 witness: a hint has selected a path of eight tiles
C9_Witness == lastOp = "showHint" /\ Len(selection) = 8

\* C10 as stated: findFirstWord returns no-result exactly when no legal path
\* spells a dictionary word of 3 to 10 letters
C10_DeadlockAsStated ==
  ~findFirstWord(grid, trie).found
    <=> ~Playable(grid, dictionary, MIN_WORD_LENGTH, MAX_WORD_LENGTH)

\* C10 amended: findFirstWord returns no-result exactly when no legal path
\* spells a dictionary word of 3 to 8 letters; a word of 9 or 10 letters is
\* never found, because the search abandons a branch at 8 letters
C10_DeadlockUpToCap ==
  /\ ~findFirstWord(grid, trie).found
       <=> ~Playable(grid, dictionary, MIN_WORD_LENGTH, SEARCH_DEPTH_CAP)
  /\ lastOp = "showHintNone" =>
       ~Playable(grid, dictionary, MIN_WORD_LENGTH, SEARCH_DEPTH_CAP)
  /\ lastOp = "endGame" =>
       ~Playable(grid, dictionary, MIN_WORD_LENGTH, SEARCH_DEPTH_CAP)

\* C10 witness: the casual deadlock check has ended a game on a grid where a
\* legal path spells a dictionary word of nine letters
C10_Witness ==
  /\ lastOp = "endGame"
  /\ screen = "GAMEOVER"
  /\ Playable(grid, dictionary, SEARCH_DEPTH_CAP + 1, MAX_WORD_LENGTH)

\* ------------------------------------------------------------------------
\* Sessions and scheduled callbacks (specification Spec)
\* ------------------------------------------------------------------------
\* the one-shot callback t fires in this step
Fires(t) == t \in timers /\ t \notin timers'

\* t was scheduled in a session before the current one
Stale(t) == t.game < games

\* C11: after a new game is started, a one-shot callback scheduled during
\* the previous session (flash reset, settle and refill with its level-up
\* check, feedback clear) changes neither the grid, the selection, the
\* animating flag, the session state, the feedback nor the screen of the new
\* game (the casual deadlock check is cleared by the cleanup of its effect
\* when startGame replaces the grid)
C11_NoStaleCallback ==
  [][\A t \in timers :
       (Stale(t) /\ Fires(t)) =>
          UNCHANGED <<grid, selection, animating, gameState, feedback,
                      screen>>]_vars

\* ------------------------------------------------------------------------
\* The countdown of the timed mode (specification SpecTimed): games of the
\* timed mode on HARD, with the one-second interval ticking
\* ------------------------------------------------------------------------
\* the menu after the dictionary has loaded and HARD has been chosen
InitTimed ==
  /\ screen = "MENU"
  /\ mode = "CASUAL"
  /\ difficulty = "HARD"
  /\ grid = <<>>
  /\ selection = <<>>
  /\ gameState = InitialGameState
  /\ animating = FALSE
  /\ feedback = NoFeedback
  /\ dictionary = DictSetOf(LoadedWords(DictionaryLines))
  /\ trie = TrieOf(LoadedWords(DictionaryLines))
  /\ isLoading = FALSE
  /\ isHighScore = FALSE
  /\ specialSpawnQueue = <<>>
  /\ timers = {}
  /\ casualTimer = NoCasualTimer
  /\ intervals = {}
  /\ timerRef = 0
  /\ leaderboard = [CASUAL |-> <<>>, TIMED |-> <<>>]
  /\ nextId = 1
  /\ games = 0
  /\ lastOp = "setDifficulty"

\* the player touches the grid only late in the countdown
LateInCountdown == gameState.timeLeft <= PlaySeconds

NextTimed ==
  \/ \E draws \in TimedLayouts : startGame("TIMED", draws)
  \/ GoMenu
  \/ nextLevel
  \/ LateInCountdown /\ \E rc \in Coords : handleTouchStart(rc)
  \/ LateInCountdown /\ \E rc \in Coords : handleTouchMove(rc, TRUE)
  \/ LateInCountdown /\ handleTouchEnd
  \/ \E t \in timers : FlashTimeout(t)
  \/ \E t \in timers : \E draws \in RefillStreams : SettleTimeout(t, draws)
  \/ \E t \in timers : FeedbackTimeout(t)
  \/ \E i \in intervals : \E date \in Dates : Tick(i, date)

SpecTimed == InitTimed /\ [][NextTimed]_vars

\* the user leaves the screen in this step
Navigates == lastOp' \in {"menu", "leaderboard"}

\* C12: once the screen is GAMEOVER no pending one-shot callback fires, and
\* until the user navigates the screen, the score, the level and the grid
\* stay as they are and no word is committed
C12_GameOverIsFinal ==
  [][(screen = "GAMEOVER" /\ ~Navigates) =>
        /\ \A t \in timers : ~Fires(t)
        /\ screen' = "GAMEOVER"
        /\ gameState'.score = gameState.score
        /\ gameState'.level = gameState.level
        /\ gameState'.wordCount = gameState.wordCount
        /\ grid' = grid]_vars

\* the leaderboard entry of the session as it is now, saved at date
CurrentEntry(date) ==
  [score |-> gameState.score, bestWord |-> gameState.bestWord, date |-> date,
   level |-> IF mode = "TIMED" THEN <<gameState.level>> ELSE <<>>]

\* C13: when a game ends, in either mode and whichever callback ends it, the
\* entry saved to the leaderboard of the mode carries the score and bestWord
\* of the session (and the level in timed mode) as they are at that moment
C13_SavedEntryIsCurrent ==
  [][lastOp' = "endGame" =>
       \E date \in Dates :
          leaderboard' = [leaderboard EXCEPT
                            ![mode] = savedScores(@, CurrentEntry(date))]]_vars

\* a scheduled-transition window is open: a flash reset, a settle and refill
\* or a post-refill callback is pending
WindowOpen == timers # {}

\* this step is a touch-start, a touch-move, a release or a hint
InputStep ==
  lastOp' \in {"touchStart", "append", "backtrack", "handleValidWord",
               "handleInvalidWord", "showHint", "showHintNone"}

\* C14: while a scheduled-transition window is open (from an invalid
\* submission until its flash reset has run; from an accepted submission
\* until the settle, the refill and the post-refill callback have run)
\* animating is true and touch-start, touch-move, release and hint leave the
\* selection, the grid and the session state unchanged
C14_AnimatingWindow ==
  /\ [](WindowOpen => animating)
  /\ [][(WindowOpen /\ InputStep) =>
          UNCHANGED <<selection, grid, gameState>>]_vars

\* C15: at most one countdown interval is registered, and one is registered
\* only while the screen is GAME and the mode is TIMED; a step that leaves
\* the game screen or changes the mode leaves none registered, however often
\* the game screen is entered, and a tick of the single interval lowers
\* timeLeft by exactly 1
C15_OneInterval ==
  /\ [](/\ Cardinality(intervals) <= 1
        /\ intervals # {} => (screen = "GAME" /\ mode = "TIMED"))
  /\ [][/\ (screen = "GAME" /\ (screen' # "GAME" \/ mode' # mode))
              => intervals' = {}
        /\ lastOp' = "tick"
              => gameState'.timeLeft = gameState.timeLeft - 1]_vars

\* the single interval ticks after the game screen has been entered three
\* times (a game, its level-up, and a second game)
C15_Witness ==
  /\ lastOp = "tick"
  /\ timerRef >= 3
  /\ Cardinality(intervals) = 1
  /\ games = 2

\* ------------------------------------------------------------------------
\* The leaderboard (specification SpecBoard): games ending with a score of
\* 10 or 20 at non-decreasing dates, from empty storage
\* ------------------------------------------------------------------------
BoardScores == {10, 20}
BoardDates == {1, 2}
Modes == {"CASUAL", "TIMED"}

\* the entry endGame builds for a session of mode m with that score
BoardEntry(m, score, date) ==
  [score |-> score, bestWord |-> <<"C", "A", "T">>, date |-> date,
   level |-> IF m = "TIMED" THEN <<1>> ELSE <<>>]

\* the menu after the dictionary has loaded, storage empty
InitBoard ==
  /\ screen = "MENU"
  /\ mode = "CASUAL"
  /\ difficulty = "NORMAL"
  /\ grid = <<>>
  /\ selection = <<>>
  /\ gameState = InitialGameState
  /\ animating = FALSE
  /\ feedback = NoFeedback
  /\ dictionary = DictSetOf(LoadedWords(DictionaryLines))
  /\ trie = TrieOf(LoadedWords(DictionaryLines))
  /\ isLoading = FALSE
  /\ isHighScore = FALSE
  /\ specialSpawnQueue = <<>>
  /\ timers = {}
  /\ casualTimer = NoCasualTimer
  /\ intervals = {}
  /\ timerRef = 0
  /\ leaderboard = [CASUAL |-> <<>>, TIMED |-> <<>>]
  /\ nextId = 1
  /\ games = 0
  /\ lastOp = "loadDictionary"

\* a session of mode m ends with that score and best word CAT: endGame
\* saves its entry
GameEnds(m, score, date) ==
  LET gs == [gameState EXCEPT !.score = score, !.bestWord = <<"C", "A", "T">>]
  IN /\ DateOk(date)
     /\ m = "TIMED" => Len(leaderboard.TIMED) < MaxTimedEntries
     /\ endGame(gs, m, date)
     /\ gameState' = gs
     /\ mode' = m
     /\ lastOp' = "endGame"
     /\ UNCHANGED <<difficulty, grid, selection, animating, feedback,
                    dictionary, trie, isLoading, specialSpawnQueue, timers,
                    casualTimer, intervals, timerRef, nextId, games>>

NextBoard ==
  \E m \in Modes : \E score \in BoardScores : \E date \in BoardDates :
     GameEnds(m, score, date)

SpecBoard == InitBoard /\ [][NextBoard]_vars

\* an entry with a mark that tells the object pushed by saveScore from the
\* objects read from storage
Marked(e, fresh) ==
  [score |-> e.score, bestWord |-> e.bestWord, date |-> e.date,
   level |-> e.level, fresh |-> fresh]

\* the pushed entry object itself is among the entries stored
EntryKept(stored, entry) ==
  LET topScores == savedScores([i \in DOMAIN stored |-> Marked(stored[i], FALSE)],
                               Marked(entry, TRUE))
  IN \E i \in DOMAIN topScores : topScores[i].fresh

\* the entries a game may save next
NextEntries(m) ==
  {BoardEntry(m, score, date) : score \in BoardScores,
                                date \in {d \in BoardDates : DateOk(d)}}

\* C16: saveScore(mode, entry) returns true if and only if the entry itself
\* is among the at most 10 entries stored for the mode after insertion,
\* descending sort and truncation, for every stored list, lists with entries
\* of the same score or the same (date, score) pair included
C16_SaveResultAsStated ==
  \A m \in Modes : \A entry \in NextEntries(m) :
     saveScoreResult(leaderboard[m], entry) <=> EntryKept(leaderboard[m], entry)

\* the list is sorted by score, highest first
SortedDesc(list) ==
  \A i, j \in DOMAIN list : i < j => list[i].score >= list[j].score

\* C17: after any sequence of saves from empty storage the list of each mode
\* has at most 10 entries and is sorted by score in non-increasing order, and
\* a save for one mode leaves the list of the other mode unchanged
C17_BoardInvariant ==
  /\ [](\A m \in Modes : Len(leaderboard[m]) <= 10 /\ SortedDesc(leaderboard[m]))
  /\ [][\A m \in Modes : mode' # m => leaderboard'[m] = leaderboard[m]]_vars

\* an eleventh casual game has ended with a score that displaces the lowest
\* entry, next to a timed list that holds entries
C17_Witness ==
  /\ lastOp = "endGame"
  /\ mode = "CASUAL"
  /\ Len(leaderboard.CASUAL) = 10
  /\ leaderboard.CASUAL[1].score = 20
  /\ leaderboard.CASUAL[10].score = 10
  /\ leaderboard.CASUAL[10].date = 1
  /\ gameState.score = 20
  /\ leaderboard.CASUAL[9].date = 2
  /\ Len(leaderboard.TIMED) = 2

\* ------------------------------------------------------------------------
\* Input before the dictionary is ready and ignored input (specification
\* Spec)
\* ------------------------------------------------------------------------
\* the dictionary is still loading, or its load has failed
NotReady == isLoading \/ trie.isNull

AllIdle == \A r \in Rows : \A c \in Cols : grid[r][c].status = "IDLE"

\* C18: while the dictionary is loading, and forever after a failed load,
\* touch-start, touch-move, release and hint never make the selection
\* non-empty, never change a tile status and never change the score, the
\* word count, the streaks or the spawn queue; no submission is processed
\* (no callback is scheduled, animating stays false)
C18_NoInputUntilReady ==
  /\ [](NotReady => /\ selection = <<>>
                    /\ grid # <<>> => AllIdle
                    /\ timers = {}
                    /\ ~animating
                    /\ gameState.score = 0
                    /\ gameState.wordCount = 0)
  /\ [][(NotReady /\ InputStep) =>
          /\ selection' = <<>>
          /\ grid' = grid
          /\ gameState'.score = gameState.score
          /\ gameState'.wordCount = gameState.wordCount
          /\ gameState'.streakShort = gameState.streakShort
          /\ gameState'.streakLong = gameState.streakLong
          /\ specialSpawnQueue' = specialSpawnQueue]_vars
  /\ [][(~isLoading /\ trie.isNull) => (~isLoading' /\ trie'.isNull)]_vars

\* a tile is touched in a game started after the load has failed
C18_Witness ==
  /\ lastOp = "touchStart"
  /\ trie.isNull
  /\ ~isLoading
  /\ screen = "GAME"
  /\ selection = <<>>

\* the part of the session an invalid submission must not touch
SessionFields ==
  <<gameState.score, gameState.wordCount, gameState.bestWord,
    gameState.level, gameState.streakShort, gameState.streakLong,
    specialSpawnQueue>>

\* a flash reset stays pending over this step
FlashPending == \E t \in timers \cap timers' : t.kind = "flash"

\* C19: an invalid submission gives every path tile the status INVALID and
\* closes the input; from then until the fixed-delay reset has fired input
\* stays closed and the score, word count, best word, level, streaks and
\* spawn queue keep the values they had before the submission; the reset
\* leaves every tile IDLE, the selection empty and the input open again
C19_InvalidRecovers ==
  /\ [](\A t \in timers : t.kind = "flash" => animating)
  /\ [][/\ lastOp' = "handleInvalidWord" =>
             /\ \A i \in DOMAIN selection :
                   grid'[selection[i][1]][selection[i][2]].status = "INVALID"
             /\ animating'
             /\ SessionFields' = SessionFields
        /\ FlashPending => SessionFields' = SessionFields
        /\ lastOp' = "flashTimeout" =>
             /\ \A r \in Rows : \A c \in Cols : grid'[r][c].status = "IDLE"
             /\ selection' = <<>>
             /\ ~animating'
             /\ SessionFields' = SessionFields]_vars

\* a touch-start on rc that must be ignored: the tile is blocked
IgnoredStart(rc) == grid[rc[1]][rc[2]].isBlocked

\* a touch-move onto rc that must be ignored: the tile is blocked, or not
\* 8-adjacent to the last tile of the path, or already on the path and not
\* its second-to-last tile
IgnoredMove(rc) ==
  LET n == Len(selection)
  IN \/ grid[rc[1]][rc[2]].isBlocked
     \/ Chebyshev(selection[n], rc) > 1
     \/ /\ \E i \in 1..n : selection[i] = rc
        /\ ~(n > 1 /\ selection[n - 1] = rc)

\* C20: a touch-start on a blocked tile, and a touch-move onto a blocked
\* tile, onto a tile not 8-adjacent to the last tile of the path or onto a
\* visited tile other than the second-to-last, changes nothing: neither the
\* selection, nor a tile status, nor the session state
C20_IgnoredTouch ==
  screen = "GAME" =>
    \A rc \in Coords :
       /\ IgnoredStart(rc) => ~ENABLED <<handleTouchStart(rc)>>_vars
       /\ (selection # <<>> /\ IgnoredMove(rc))
             => ~ENABLED <<handleTouchMove(rc, TRUE)>>_vars

\* a path of three tiles is being dragged, with a blocked tile next to its
\* last tile and a free tile out of reach
C20_Witness ==
  /\ InputAccepted
  /\ lastOp = "append"
  /\ Len(selection) = 3
  /\ \E rc \in Coords : /\ grid[rc[1]][rc[2]].isBlocked
                        /\ Chebyshev(selection[3], rc) = 1
  /\ \E rc \in Coords : /\ ~grid[rc[1]][rc[2]].isBlocked
                        /\ Chebyshev(selection[3], rc) > 1
                        /\ \A i \in 1..3 : selection[i] # rc

\* ------------------------------------------------------------------------
\* live feedback of the path
\* ------------------------------------------------------------------------
\* the last step was a touch-start, an append or a backtrack that went
\* through evaluateSelection
PathStep == lastOp \in {"touchStart", "append", "backtrack"} /\ ~trie.isNull

\* the status every tile of the selection carries, "none" when they differ
\* or the selection is empty
CommonStatus ==
  IF selection # <<>> /\
     \A i \in DOMAIN selection :
        grid[selection[i][1]][selection[i][2]].status =
          grid[selection[1][1]][selection[1][2]].status
  THEN grid[selection[1][1]][selection[1][2]].status
  ELSE "none"

\* C21: after every accepted touch-start, append or backtrack all tiles of
\* the selection carry one common status and every other tile that is not
\* MATCHED or EXPLODED is IDLE; the common status is VALID iff the trie
\* returns 2 (exact word) for the word of the path and its length is at
\* least 3, SELECTED iff the trie result is not 0 and the word is not such a
\* valid word, REJECT iff the trie returns 0
C21_LiveStatus ==
  PathStep =>
    LET word == WordOf(grid, selection)
        lookup == TrieSearch(trie, word)
        valid == lookup = 2 /\ Len(word) >= 3
    IN /\ CommonStatus \in {"VALID", "SELECTED", "REJECT"}
       /\ \A rc \in Coords :
             (~Contains(selection, rc) /\
              grid[rc[1]][rc[2]].status \notin {"MATCHED", "EXPLODED"})
               => grid[rc[1]][rc[2]].status = "IDLE"
       /\ CommonStatus = "VALID" <=> valid
       /\ CommonStatus = "SELECTED" <=> (lookup # 0 /\ ~valid)
       /\ CommonStatus = "REJECT" <=> lookup = 0

\* C21 witness: a backtrack has shortened a path to the two letters of a
\* proper prefix of a word, which the trie knows as a prefix only, so the
\* path shows SELECTED
C21_Witness ==
  /\ lastOp = "backtrack"
  /\ Len(selection) = 2
  /\ TrieSearch(trie, WordOf(grid, selection)) = 1
  /\ CommonStatus = "SELECTED"

\* ------------------------------------------------------------------------
\* commit and refill
\* ------------------------------------------------------------------------
\* the coordinates of the tiles of g marked MATCHED or EXPLODED
RemovalSetOf(g) == {rc \in Coords : Removed(g[rc[1]][rc[2]])}

\* a settle callback stays pending over this step
SettlePending == \E t \in timers \cap timers' : t.kind = "settle"

\* the ids of the tiles of g
IdsOf(g) == {g[rc[1]][rc[2]].id : rc \in Coords}

\* the refill of this step replaces exactly the tiles marked in grid:
\* per column as many generated tiles as marked ones, the generated tiles
\* IDLE with isNew on top, the survivors below with isNew cleared, nothing
\* marked afterwards
RefillReplacesMarked ==
  /\ \A c \in Cols :
       LET lost == Cardinality({r \in Rows : Removed(grid[r][c])})
       IN /\ Cardinality({r \in Rows : grid'[r][c].id \notin IdsOf(grid)}) = lost
          /\ \A r \in Rows :
               IF r < lost
               THEN /\ grid'[r][c].id \notin IdsOf(grid)
                    /\ grid'[r][c].status = "IDLE"
                    /\ grid'[r][c].isNew
               ELSE /\ \E q \in Rows : /\ ~Removed(grid[q][c])
                                       /\ grid'[r][c].id = grid[q][c].id
                    /\ ~grid'[r][c].isNew
  /\ RemovalSetOf(grid') = {}

\* C22: the refill that follows an accepted word replaces exactly the tiles
\* of the removal set fixed at commit time (path tiles MATCHED, blast tiles
\* EXPLODED) and no other tile: the grid does not change between the marking
\* and the refill, each column receives as many generated tiles as it holds
\* tiles of the removal set, and after the refill no tile is MATCHED or
\* EXPLODED, every generated tile is IDLE with isNew set and sits above all
\* survivors, and every survivor has isNew cleared
C22_RefillExact ==
  [][/\ lastOp' = "handleValidWord" =>
          RemovalSetOf(grid') = Range(selection) \cup BlastArea(grid, selection)
     /\ SettlePending => grid' = grid
     /\ lastOp' = "applyGravity" =>
          /\ RemovalSetOf(grid) # {}
          /\ RefillReplacesMarked]_vars

\* ------------------------------------------------------------------------
\* the spawn queue in a refill
\* ------------------------------------------------------------------------
\* the longest spawn queue a refill is tried on
MaxQueue == 2

\* the spawn queues a refill is tried on
QueueInputs == UNION {[1..n -> {"BLOCKED", "BOMB"}] : n \in 0..MaxQueue}

\* the number of tiles of column c of g that are MATCHED or EXPLODED
LostIn(g, c) == Cardinality({r \in Rows : Removed(g[r][c])})

RECURSIVE GeneratedFrom(_, _)
\* the places of the tiles a refill of g generates in the columns from c
\* on, in the order of generation: column by column, top-down in a column
GeneratedFrom(g, c) ==
  IF c >= GRID_SIZE THEN <<>>
  ELSE [i \in 1..LostIn(g, c) |-> <<i - 1, c>>] \o GeneratedFrom(g, c + 1)

\* a refill of grid before with spawn queue queue, draws draws and fresh
\* ids from id on has led to grid after and queue queueLeft as stated: the
\* i-th generated tile is forced to the i-th queued type as long as there is
\* one, and comes from the probability model afterwards
QueueServed(before, queue, after, queueLeft, level, m, draws, id) ==
  LET gen == GeneratedFrom(before, 0)
      k == Min(Len(gen), Len(queue))
  IN /\ queueLeft = SubSeq(queue, k + 1, Len(queue))
     /\ \A i \in 1..Len(gen) :
          after[gen[i][1]][gen[i][2]] =
            generateTile(level, m, TRUE, IF i <= k THEN queue[i] ELSE "none",
                         DrawAt(draws, i), id + i - 1)
     /\ (queue # <<>> /\ gen # <<>>) =>
          LET first == CHOOSE c \in Cols :
                         /\ LostIn(before, c) > 0
                         /\ \A d \in Cols : LostIn(before, d) > 0 => c <= d
              top == after[0][first]
          IN IF Head(queue) = "BLOCKED" THEN top.isBlocked ELSE top.isBomb

\* C23: during a refill the forced types are taken from the spawn queue in
\* the order they were pushed, one per generated tile, before any tile comes
\* from the probability model; tiles are generated column by column from
\* column 0 and top-down within a column, so a queued type becomes the tile
\* at row 0 of the lowest-index column that lost a tile. Stated of every
\* refill of a run, and of the refill of every marked grid of a run under
\* every spawn queue of up to MaxQueue types
C23_QueueOrder ==
  /\ [](lastOp = "handleValidWord" =>
          \A q \in QueueInputs : \A draws \in RefillStreams :
             LET res == gravityResult(grid, q, nextId, gameState.level, mode, draws)
             IN QueueServed(grid, q, res.grid, res.queue, gameState.level, mode,
                            draws, nextId))
  /\ [][lastOp' = "applyGravity" =>
          \E t \in timers : \E draws \in RefillStreams :
             /\ Fires(t)
             /\ t.kind = "settle"
             /\ QueueServed(grid, specialSpawnQueue, grid', specialSpawnQueue',
                            t.level, t.mode, draws, nextId)]_vars

\* C23 witness: the refill after the second short word of a streak: the
\* queued blocked tile stands at row 0 of column 0, the tile under it was
\* generated by the probability model, and the queue is empty
C23_Witness ==
  /\ lastOp = "applyGravity"
  /\ gameState.streakShort >= 2
  /\ specialSpawnQueue = <<>>
  /\ grid[0][0].isNew /\ grid[0][0].isBlocked
  /\ grid[1][0].isNew /\ ~grid[1][0].isBlocked

LayoutLevels ==
  FlattenRows(<< <<BlockedDraw, BlockedDraw, BlockedDraw,
                   BombDraw("C"), BombDraw("A"), BombDraw("T")>>,
                 <<BlockedDraw, BombDraw("C"), BlockedDraw, BlockedDraw,
                   BlockedDraw, BlockedDraw>>,
                 <<BlockedDraw, BlockedDraw, BombDraw("A"), BlockedDraw,
                   BlockedDraw, BlockedDraw>>,
                 <<BlockedDraw, BlockedDraw, BlockedDraw, BombDraw("T"),
                   BlockedDraw, BlockedDraw>>,
                 <<BlockedDraw, BlockedDraw, BlockedDraw, BlockedDraw,
                   BombDraw("S"), BlockedDraw>>,
                 BlockedRow >>)

\* the state after loadDictionary and startGame(TIMED) with the draws of
\* LayoutLevels: the countdown interval of the game screen is registered
InitLevels ==
  /\ screen = "GAME"
  /\ mode = "TIMED"
  /\ difficulty = "NORMAL"
  /\ grid = createInitialGrid(1, "TIMED", LayoutLevels)
  /\ selection = <<>>
  /\ gameState = InitialGameState
  /\ animating = FALSE
  /\ feedback = NoFeedback
  /\ dictionary = DictSetOf(LoadedWords(DictionaryLines))
  /\ trie = TrieOf(LoadedWords(DictionaryLines))
  /\ isLoading = FALSE
  /\ isHighScore = FALSE
  /\ specialSpawnQueue = <<>>
  /\ timers = {}
  /\ casualTimer = NoCasualTimer
  /\ intervals = {[id |-> 1, gameState |-> InitialGameState, mode |-> "TIMED"]}
  /\ timerRef = 1
  /\ leaderboard = [CASUAL |-> <<>>, TIMED |-> <<>>]
  /\ nextId = GRID_SIZE * GRID_SIZE + 1
  /\ games = 1
  /\ lastOp = "startGame"

\* the steps of one session: the player stays in the game
NextLevels ==
  \/ nextLevel
  \/ \E rc \in Coords : handleTouchStart(rc)
  \/ \E rc \in Coords : handleTouchMove(rc, TRUE)
  \/ handleTouchMove(<<0, 0>>, FALSE)
  \/ handleTouchEnd
  \/ \E t \in timers : FlashTimeout(t)
  \/ \E t \in timers : \E draws \in RefillStreams : SettleTimeout(t, draws)
  \/ \E t \in timers : FeedbackTimeout(t)

SpecLevels == InitLevels /\ [][NextLevels]_vars

\* C25: after the refill that follows an accepted word the screen becomes
\* LEVEL_UP iff score >= targetScore; the advance-level command then raises
\* level by exactly 1, raises targetScore strictly to
\* floor(1.5 x targetScore) + 500, leaves score unchanged and returns to
\* GAME; the level changes in no other step of a session, so one accepted
\* word causes at most one level advance even when score already exceeds
\* the next target
C25_LevelAdvance ==
  /\ [](gameState.level <= gameState.wordCount + 1)
  /\ [][/\ lastOp' = "applyGravity" =>
             (screen' = "LEVEL_UP" <=> gameState'.score >= gameState'.targetScore)
        /\ lastOp' = "nextLevel" =>
             /\ screen = "LEVEL_UP"
             /\ gameState'.level = gameState.level + 1
             /\ 2 * (gameState'.targetScore - 500) <= 3 * gameState.targetScore
             /\ 2 * (gameState'.targetScore - 500) > 3 * gameState.targetScore - 2
             /\ gameState'.targetScore > gameState.targetScore
             /\ gameState'.score = gameState.score
             /\ screen' = "GAME"
        /\ (games' = games /\ gameState'.level # gameState.level) =>
             lastOp' = "nextLevel"]_vars

\* C25 witness: the level has been advanced once with a score that already
\* reaches the next target, and the game screen is shown
C25_Witness ==
  /\ lastOp = "nextLevel"
  /\ screen = "GAME"
  /\ gameState.level = 2
  /\ gameState.score >= gameState.targetScore

\* ------------------------------------------------------------------------
\* Game over of the casual mode (specification SpecCasual: the game model
\* with casual games only and the debounced deadlock check firing whenever
\* it stays pending)
\* ------------------------------------------------------------------------
\* the steps of the game model with every game started in casual mode
NextCasual ==
  \/ LoadDictionary
  \/ LoadDictionaryFailed
  \/ \E d \in {"EASY", "NORMAL", "HARD"} : SetDifficulty(d)
  \/ \E draws \in InitialLayouts : startGame("CASUAL", draws)
  \/ GoMenu
  \/ GoLeaderboard
  \/ nextLevel
  \/ \E rc \in Coords : handleTouchStart(rc)
  \/ \E rc \in Coords : handleTouchMove(rc, TRUE)
  \/ handleTouchMove(<<0, 0>>, FALSE)
  \/ handleTouchEnd
  \/ showHint
  \/ \E t \in timers : FlashTimeout(t)
  \/ \E t \in timers : \E draws \in RefillStreams : SettleTimeout(t, draws)
  \/ \E t \in timers : FeedbackTimeout(t)
  \/ \E date \in Dates : CasualTimeout(date)

\* the step of CasualTimeout, told by what it does to the pending check: it
\* is possible exactly while a check is pending
CasualFires ==
  /\ casualTimer.pending
  /\ casualTimer' = NoCasualTimer
  /\ UNCHANGED <<mode, difficulty, grid, selection, gameState, animating,
                 feedback, dictionary, trie, isLoading, specialSpawnQueue,
                 timers, nextId, games>>
  /\ \/ /\ lastOp' = "casualCheck"
        /\ UNCHANGED <<leaderboard, isHighScore, screen, intervals, timerRef>>
     \/ /\ lastOp' = "endGame"
        /\ screen' = "GAMEOVER"

\* a timeout that stays pending fires: no step of the program cancels it
\* without a change of grid, animating, screen, mode or trie
SpecCasual == Init /\ [][NextCasual]_vars /\ WF_vars(CasualFires)

\* a casual game shows a settled grid on which findFirstWord finds nothing
Deadlocked ==
  /\ screen = "GAME"
  /\ mode = "CASUAL"
  /\ ~animating
  /\ ~trie.isNull
  /\ ~findFirstWord(grid, trie).found

\* C26: in CASUAL mode the game moves to GAMEOVER only when the deadlock
\* detector, run on the current settled grid (not animating), finds nothing;
\* a pending check always holds the current grid (a grid change or an
\* animating window cancels it), and from a settled deadlocked grid the game
\* reaches GAMEOVER unless the grid stops being settled and deadlocked first
C26_CasualGameOver ==
  /\ [](casualTimer.pending =>
          /\ casualTimer.grid = grid
          /\ screen = "GAME" /\ mode = "CASUAL" /\ ~animating)
  /\ [][(mode = "CASUAL" /\ screen # "GAMEOVER" /\ screen' = "GAMEOVER") =>
          /\ Deadlocked
          /\ casualTimer.pending
          /\ grid' = grid]_vars
  /\ (Deadlocked ~> (screen = "GAMEOVER" \/ ~Deadlocked))

\* C26 witness: the game is over after a word was played and the check ran
\* on the refilled grid
C26_Witness ==
  /\ screen = "GAMEOVER"
  /\ mode = "CASUAL"
  /\ lastOp = "endGame"
  /\ gameState.wordCount >= 1
  /\ ~findFirstWord(grid, trie).found

\* ------------------------------------------------------------------------
\* Game over of the timed mode (specification SpecTimedFair: the countdown
\* specification with the interval ticking as long as it is registered)
\* ------------------------------------------------------------------------
SpecTimedFair ==
  InitTimed /\ [][NextTimed]_vars
    /\ WF_vars(\E i \in intervals : \E date \in Dates : Tick(i, date))

\* the safety part of C27: a timed game moves to GAMEOVER exactly on a tick
\* that observes timeLeft <= 0, timeLeft is never negative, and no tick
\* happens while the screen is LEVEL_UP
TimedSafety ==
  /\ [](gameState.timeLeft >= 0)
  /\ [][/\ (mode = "TIMED" /\ screen # "GAMEOVER" /\ screen' = "GAMEOVER") =>
             (lastOp' = "endGame" /\ gameState.timeLeft <= 0 /\ intervals # {})
        /\ (lastOp' \in {"tick", "endGame"} /\ gameState.timeLeft <= 0) =>
             screen' = "GAMEOVER"
        /\ lastOp' = "tick" =>
             (gameState.timeLeft > 0 /\ gameState'.timeLeft = gameState.timeLeft - 1)
        /\ screen = "LEVEL_UP" =>
             (lastOp' \notin {"tick", "endGame"} /\
              (gameState'.timeLeft = gameState.timeLeft \/ lastOp' = "nextLevel"))]_vars

\* C27 as stated: the safety part, and a timed game in progress (game or
\* level-up screen) leads to GAMEOVER unless a further word is accepted or
\* the player leaves for the menu
C27_TimedEnds ==
  /\ TimedSafety
  /\ ((mode = "TIMED" /\ screen \in {"GAME", "LEVEL_UP"})
        ~> (screen \in {"GAMEOVER", "MENU"} \/ lastOp = "handleValidWord"))

\* C27 amended: the safety part, and a timed game whose game screen is shown
\* leads to GAMEOVER unless a further word is accepted or the game screen is
\* left (for the menu, or for the level-up screen, where the countdown is
\* stopped until the player advances)
C27_TimedEndsWhilePlaying ==
  /\ TimedSafety
  /\ ((mode = "TIMED" /\ screen = "GAME")
        ~> (screen \in {"GAMEOVER", "MENU", "LEVEL_UP"} \/ lastOp = "handleValidWord"))

\* C27 witness: after an accepted word the countdown has run down to zero
\* and the next tick has ended the game
C27_Witness ==
  /\ mode = "TIMED"
  /\ screen = "GAMEOVER"
  /\ lastOp = "endGame"
  /\ gameState.timeLeft = 0
  /\ gameState.wordCount >= 1

\* ------------------------------------------------------------------------
\* the state after startGame
\* ------------------------------------------------------------------------
\* the draws a new grid may be made of
StartDraws == InitialLayouts \cup TimedLayouts

\* C28: immediately after startGame(mode), from any prior state: score = 0,
\* wordCount = 0, bestWord empty, level = 1, targetScore = 500, both streaks
\* 0, timeLeft = 60 in TIMED and 0 in CASUAL, the spawn queue and the
\* selection empty, the screen GAME, and the grid a full 6x6 matrix of IDLE
\* tiles with isNew = false, each generated at level 1 without a forced type
C28_StartGame ==
  lastOp = "startGame" =>
    /\ gameState.score = 0
    /\ gameState.wordCount = 0
    /\ gameState.bestWord = <<>>
    /\ gameState.level = 1
    /\ gameState.targetScore = 500
    /\ gameState.streakShort = 0
    /\ gameState.streakLong = 0
    /\ gameState.timeLeft = IF mode = "TIMED" THEN 60 ELSE 0
    /\ specialSpawnQueue = <<>>
    /\ selection = <<>>
    /\ screen = "GAME"
    /\ DOMAIN grid = Rows
    /\ \A r \in Rows :
         /\ DOMAIN grid[r] = Cols
         /\ \A c \in Cols : grid[r][c].status = "IDLE" /\ ~grid[r][c].isNew
    /\ \E draws \in StartDraws :
         \A r \in Rows : \A c \in Cols :
            grid[r][c] = generateTile(1, mode, FALSE, "none",
                                      draws[r * GRID_SIZE + c + 1],
                                      grid[r][c].id)

\* C28 witness: a second game has been started while the settle callback of
\* a word accepted in the first one was pending and input was closed
C28_Witness ==
  /\ lastOp = "startGame"
  /\ games = 2
  /\ animating
  /\ \E t \in timers : t.kind = "settle"

\* ------------------------------------------------------------------------
\* well-formed tiles
\* ------------------------------------------------------------------------
\* the levels and the draws over which generateTile is evaluated: every roll
\* around the two thresholds of every level, both sides of the wild
\* threshold, two letters and the first and last colour
MaxGenLevel == 10
GenLevels == 1..MaxGenLevel
GenDraws ==
  [roll : (0..40) \cup {99}, letter : {"C", "E"}, wild : {0, 7, 8, 50},
   color : {1, Len(TILE_COLORS)}]

\* a tile is not both blocked and bomb, and has no letter iff it is blocked
WellFormed(t) ==
  /\ ~(t.isBlocked /\ t.isBomb)
  /\ (t.letter = "" <=> t.isBlocked)

\* every tile generateTile returns is well formed and idle
GeneratedTilesIdle ==
  \A level \in GenLevels, m \in Modes, isNew \in BOOLEAN,
     forcedType \in {"BLOCKED", "BOMB", "none"}, rnd \in GenDraws :
    LET t == generateTile(level, m, isNew, forcedType, rnd, 1)
    IN /\ WellFormed(t)
       /\ t.status = "IDLE"
       /\ (forcedType = "BLOCKED" => t.isBlocked)
       /\ (forcedType = "BOMB" => t.isBomb)

\* C29: in every reachable grid every tile is not both blocked and bomb and
\* has an empty letter iff it is blocked; every tile generateTile produces,
\* forced or drawn, for any level and mode, is idle.  generateTile is a
\* function of its arguments and its draws, so the statement over all of
\* them is evaluated in the states that have no grid yet; the grid of
\* startGame and the new tiles of every refill are examined where they appear
C29_TileInvariant ==
  /\ IF grid = <<>>
     THEN GeneratedTilesIdle
     ELSE \A rc \in Coords : WellFormed(grid[rc[1]][rc[2]])
  /\ lastOp = "startGame" =>
       \A rc \in Coords : grid[rc[1]][rc[2]].status = "IDLE"
  /\ lastOp = "applyGravity" =>
       \A rc \in Coords :
         grid[rc[1]][rc[2]].isNew => grid[rc[1]][rc[2]].status = "IDLE"

\* a refill has put a forced blocked tile and a bomb into the grid, next to
\* surviving tiles
C29_Witness ==
  /\ lastOp = "applyGravity"
  /\ \E rc \in Coords : LET t == grid[rc[1]][rc[2]]
                        IN t.isNew /\ t.isBlocked /\ t.letter = ""
  /\ \E rc \in Coords : LET t == grid[rc[1]][rc[2]]
                        IN t.isNew /\ t.isBomb /\ t.letter # ""
  /\ \E rc \in Coords : ~grid[rc[1]][rc[2]].isNew

\* ------------------------------------------------------------------------
\* live feedback against the commit check
\* ------------------------------------------------------------------------
\* every tile of the selection shows status s
PathShows(s) ==
  \A i \in 1..Len(selection) : grid[selection[i][1]][selection[i][2]].status = s

\* the step is a release: input was open and the step closes it
Release == ~animating /\ animating'

\* C30 (as claimed): at every release with input accepted the path tiles
\* show VALID iff the release is accepted as a valid submission
C30_FeedbackAgrees ==
  [][Release => (PathShows("VALID") <=> lastOp' = "handleValidWord")]_vars

\* the strings on which the trie and the set are compared: every string of
\* up to MaxAgreeLen letters of the board, and every prefix of a line of the
\* word list, upper-cased
MaxAgreeLen == 4
AgreeLetters == {"A", "C", "E", "S", "T"}
AgreeStrings ==
  UNION {[1..n -> AgreeLetters] : n \in 0..MaxAgreeLen}
    \cup {SubSeq(ToUpperCase(DictionaryLines[i]), 1,
                  Min(n, Len(DictionaryLines[i]))) :
            i \in DOMAIN DictionaryLines, n \in 0..(MAX_WORD_LENGTH + 1)}

\* the trie answers "word" for w iff the set holds w
TrieAgrees(w) == (TrieSearch(trie, w) = 2) <=> (w \in dictionary)

\* the selection is the path the hint places on this grid, still shown as
\* the hint shows it
HintPath ==
  /\ PathShows("SELECTED")
  /\ LET move == findFirstWord(grid, trie)
     IN move.found /\ move.path = selection

\* C30 (amended): the trie answers "word" for a string iff the set holds it;
\* at every release with input accepted the release is accepted as a valid
\* submission iff the path tiles show VALID or the path is the one the hint
\* placed, which shows SELECTED; the path the hint places is a dictionary
\* word of at least MIN_WORD_LENGTH letters and is accepted when released
C30_FeedbackAgreesButHint ==
  /\ [](~trie.isNull =>
          /\ TrieAgrees(SelectedWord)
          /\ lastOp = "loadDictionary" => \A w \in AgreeStrings : TrieAgrees(w))
  /\ [][/\ Release =>
             (lastOp' = "handleValidWord" <=> (PathShows("VALID") \/ HintPath))
        /\ lastOp' = "showHint" =>
             /\ isValidSubmission(WordOf(grid', selection'))
             /\ \A i \in 1..Len(selection') :
                  grid'[selection'[i][1]][selection'[i][2]].status = "SELECTED"]_vars

\* the hint has placed a dictionary word as the selection, shown as
\* SELECTED, and input is accepted: a release takes it to the match resolver
C30_Witness ==
  /\ lastOp = "showHint"
  /\ InputAccepted /\ InputOpen
  /\ Len(selection) >= MIN_WORD_LENGTH
  /\ PathShows("SELECTED")
  /\ TrieSearch(trie, SelectedWord) = 2
  /\ isValidSubmission(SelectedWord)

\* ------------------------------------------------------------------------
\* length of the special spawn queue
\* ------------------------------------------------------------------------
\* the tiles the last refill generated
NewTiles(g) == {rc \in Coords : g[rc[1]][rc[2]].isNew}

\* C31: the special spawn queue never holds more than one entry and is empty
\* after every refill: an accepted word finds the queue empty and pushes at
\* most one forced type, and the refill of a word of the running game
\* generates at least MIN_WORD_LENGTH tiles, so it takes the entry
C31_QueueShort ==
  /\ [](/\ Len(specialSpawnQueue) <= 1
        /\ lastOp = "applyGravity" => specialSpawnQueue = <<>>)
  /\ [][/\ lastOp' = "handleValidWord" =>
             /\ specialSpawnQueue = <<>>
             /\ Len(specialSpawnQueue') <= 1
        /\ \A t \in timers :
             (Fires(t) /\ t.kind = "settle" /\ ~Stale(t)) =>
               /\ Cardinality(NewTiles(grid')) >= MIN_WORD_LENGTH
               /\ specialSpawnQueue' = <<>>]_vars

\* a refill has just taken the forced type the second short word of a streak
\* pushed: the queue is empty again
C31_Witness ==
  /\ lastOp = "applyGravity"
  /\ gameState.streakShort >= 2
  /\ specialSpawnQueue = <<>>
  /\ \E rc \in NewTiles(grid) : grid[rc[1]][rc[2]].isBlocked
  /\ Cardinality(NewTiles(grid)) >= MIN_WORD_LENGTH

\* ------------------------------------------------------------------------
\* the streak counters
\* ------------------------------------------------------------------------
\* at most one streak counter is non-zero and neither is negative
StreaksExclusive ==
  /\ gameState.streakShort >= 0
  /\ gameState.streakLong >= 0
  /\ ~(gameState.streakShort # 0 /\ gameState.streakLong # 0)

\* C32 (as claimed): in every reachable state at most one of streakShort and
\* streakLong is non-zero, both are non-negative, and with difficulty EASY
\* streakShort is 0
C32_Streaks ==
  /\ StreaksExclusive
  /\ difficulty = "EASY" => gameState.streakShort = 0

\* C32 (amended): in every reachable state at most one of streakShort and
\* streakLong is non-zero and both are non-negative; only startGame and an
\* accepted word change streakShort, startGame and every word accepted on
\* EASY leave it at 0, so while the difficulty is EASY it is non-zero only
\* as the unchanged value of an earlier state
C32_StreaksInGame ==
  /\ []StreaksExclusive
  /\ [][/\ gameState'.streakShort # gameState.streakShort =>
             lastOp' \in {"startGame", "handleValidWord"}
        /\ lastOp' = "startGame" =>
             gameState'.streakShort = 0 /\ gameState'.streakLong = 0
        /\ (lastOp' = "handleValidWord" /\ difficulty = "EASY") =>
             gameState'.streakShort = 0
        /\ (difficulty' = "EASY" /\ gameState'.streakShort # 0) =>
             gameState'.streakShort = gameState.streakShort]_vars

\* a three-letter word has been accepted on EASY and streakShort is 0
C32_Witness ==
  /\ lastOp = "handleValidWord"
  /\ difficulty = "EASY"
  /\ screen = "GAME"
  /\ Len(gameState.bestWord) = MIN_WORD_LENGTH
  /\ gameState.wordCount = 1
  /\ gameState.streakShort = 0 /\ gameState.streakLong = 0

\* ------------------------------------------------------------------------
\* entering the level-up screen
\* ------------------------------------------------------------------------
\* C33: the screen becomes LEVEL_UP only from the GAME screen: no step, for
\* any interleaving of the MENU button and startGame with a pending settle
\* callback, moves the screen to LEVEL_UP from MENU, LEADERBOARD or GAMEOVER
C33_LevelUpFromGame ==
  [][(screen' = "LEVEL_UP" /\ screen # "LEVEL_UP") => screen = "GAME"]_vars

\* ------------------------------------------------------------------------
\* leaderboard entries per session
\* ------------------------------------------------------------------------
\* the entries written so far (no list of the model reaches MAX_ENTRIES)
EntriesWritten == Len(leaderboard["CASUAL"]) + Len(leaderboard["TIMED"])

C35_ReadyAfterStart == lastOp = "startGame" => ~animating

\* ------------------------------------------------------------------------
\* input gating ends (specification SpecGate: the game with scheduled
\* timeouts that eventually fire)
\* ------------------------------------------------------------------------
\* the handlers that open and close the input gate, navigation between
\* games, and the callbacks; the deadlock check, the hint and the countdown
\* neither read nor write the animating flag and the pending callbacks
NextGate ==
  \/ \E m \in Modes : \E draws \in TimedLayouts : startGame(m, draws)
  \/ GoMenu
  \/ nextLevel
  \/ \E rc \in Coords : handleTouchStart(rc)
  \/ \E rc \in Coords : handleTouchMove(rc, TRUE)
  \/ handleTouchEnd
  \/ \E t \in timers : FlashTimeout(t)
  \/ \E t \in timers : \E draws \in RefillStreams : SettleTimeout(t, draws)
  \/ \E t \in timers : FeedbackTimeout(t)

\* the steps of the settle callback, told by what it does to the pending
\* callbacks and to the gate: it is enabled whenever a settle callback is
\* pending, whatever the grid it finds
SettleFires ==
  \E t \in timers :
    /\ t.kind = "settle"
    /\ timers' = (timers \ {t}) \cup {FeedbackTimer}
    /\ animating' = FALSE
    /\ selection' = <<>>
    /\ lastOp' = "applyGravity"
    /\ UNCHANGED <<mode, difficulty, gameState, feedback, dictionary, trie,
                   isLoading, isHighScore, leaderboard, games>>
    /\ \/ UNCHANGED <<grid, specialSpawnQueue, nextId, screen, intervals,
                      timerRef, casualTimer>>
       \/ \E draws \in RefillStreams : SettleTimeout(t, draws)

\* setTimeout callbacks are never cancelled by the component, so a pending
\* flash or settle callback stays enabled until it fires
SpecGate ==
  InitTimed /\ [][NextGate]_vars
    /\ WF_vars(\E t \in timers : FlashTimeout(t))
    /\ WF_vars(SettleFires)

\* C36: whenever the animating flag is true it eventually becomes false
\* again, under every interleaving of callbacks and navigation, provided
\* scheduled timeouts eventually fire; while it is true a flash or settle
\* callback is pending
C36_GateReopens ==
  /\ [](animating => \E t \in timers : t.kind \in {"flash", "settle"})
  /\ animating ~> ~animating

\* a settle callback has reopened input after the player left for the menu
C36_Witness ==
  /\ lastOp = "applyGravity"
  /\ screen = "MENU"
  /\ ~animating
  /\ \A t \in timers : t.kind \notin {"flash", "settle"}
====
